---- MODULE Spec2Model ----
(***************************************************************************)
(* A model of the intrusive blocking connection server of BCL:             *)
(*   - the request/response hand-off of bcl::IntrusiveConnection           *)
(*     (include/bcl/IntrusiveConnection.h), specification Spec;            *)
(*   - the chunk splitting of its receive listener as a pure function,     *)
(*     specification SplitSpec;                                            *)
(*   - the per-connection socket engine SocketImp (lib/Socket/CSocket),    *)
(*     specification EngineSpec;                                           *)
(*   - the listening loop bcl::net::startServer, specification ServerSpec. *)
(* Strings are sequences of characters; a character is a one-letter        *)
(* string, and NUL stands for '\0'.                                        *)
(***************************************************************************)
EXTENDS Integers, Sequences, FiniteSets, TLC

VARIABLES
  \* ---- IntrusiveConnection::Status (the hand-off status block CS)
  mReceiveMutex, mSendMutex,   \* "free", "worker" or "net": who holds the lock
  mReceiveData, mSendData,
  mIsReceive, mIsSend, mClose, mReject,
  csDeletes,                   \* how many times `delete CS` has run
  \* ---- state captured by the listeners of connect()
  Reject,                      \* the heap flag *Reject
  rejectDeletes,               \* how many times `delete Reject` has run
  Delimiter,
  Buffer,                      \* the queue of discrete requests of the chunk
  nData,                       \* the listener's local Data
  npc,                         \* position of the network thread
  \* ---- the worker thread running the server entry point
  mStatus,                     \* the handle's pointer: "CS" or "null"
  wData, wClose,               \* answer()'s locals Data and Close
  wpc,                         \* position of the worker thread
  \* ---- history
  delivered,                   \* every discrete request queued by the listener
  published,                   \* every request published to the worker
  handled,                     \* every request the handler was invoked with
  sent,                        \* every message passed to Socket::send, with the
                               \* number of the published request it answers
                               \* (0: sent without publishing a request)
  nChunks,                     \* raw chunks delivered so far
  chunk,                       \* the current chunk: the raw chunk, its discrete
                               \* requests as the splitting gives them, the
                               \* messages sent while serving it, whether *Reject
                               \* was set when it arrived, Len(published) then
  ansCalls, ansRet,            \* the current answer() call: handler invocations
                               \* and return value ("none" while it runs)
  uaf,                         \* the worker touched the status block after delete
  nuaf,                        \* the network thread touched it after delete
  \* ---- the pure splitting function (SplitSpec)
  fChunk, fDelim,              \* the raw chunk and the delimiter
  fOut, fDone,                 \* the queue built from them, once built
  \* ---- SocketImp (EngineSpec)
  mState,                      \* "Open", "OnClose" or "Closed"
  mReceiveCallbacks,           \* number of registered receive listeners
  mClosedCallbacks,            \* number of registered closed listeners
  epc,                         \* position of run()
  eCallback,                   \* the receive listener being invoked
  eSends,                      \* send() calls made by that listener so far
  eReads,                      \* chunks read so far
  eEvents,                     \* the statuses reported through mOn, in order
  eClosedCalls,                \* the invocations of closed listeners, in order
  eReceiveCalls,               \* the invocations of receive listeners, in order
  eEnd,                        \* why run() closed the socket
  eRet,                        \* the value run() returned
  \* ---- startServer (ServerSpec)
  ConnectionMaxNumber,         \* the parameter, then the cap set from it
  ActiveSockets,               \* connection handle -> worker (0: no future yet)
  ConnectionFD,                \* the handle accept returned
  spc,                         \* position of startServer
  workers,                     \* the workers std::async started: handle, state,
                               \* the descriptor mConnection of the SocketImp
  openFDs,                     \* the connection handles open on the platform
  sEvents,                     \* the statuses startServer reported, in order,
                               \* each with the descriptor passed
  sAccepts,                    \* accept calls so far
  sK,                          \* the parameter ConnectionMaxNumber as passed
  sAssert,                     \* the assertion before the launch was violated
  PortNo,                      \* the parameter PortNo
  \* ---- two TransparentQueue objects (QueueSpec)
  TQ,                          \* the objects Q1 and Q2: mIsSingle, mIsEmpty and
                               \* the union of mValue and mQueue
  tqElems,                     \* the elements pushed and not yet popped, in order
  tqResult,                    \* the results of Q1 == Q2 and Q1 < Q2, once taken
  tqCall,                      \* the last call that changed a queue: the member
                               \* function, the object, the argument, the value
                               \* returned and the elements held before the call
  \* ---- IntrusiveConnection handles and their status blocks (HandleSpec)
  handles,                     \* each handle object: "unborn" before its
                               \* construction, "dead" after its destruction,
                               \* "alive" between; its pointer mStatus
  blocks,                      \* each Status block: allocated or not, and mReject
  hCall                        \* the last operation on a handle, and whether it
                               \* set a reject flag

hvars == <<mReceiveMutex, mSendMutex, mReceiveData, mSendData, mIsReceive,
           mIsSend, mClose, mReject, csDeletes, Reject, rejectDeletes,
           Delimiter, Buffer, nData, npc, mStatus, wData, wClose, wpc,
           delivered, published, handled, sent, nChunks, chunk,
           ansCalls, ansRet, uaf, nuaf>>
fvars == <<fChunk, fDelim, fOut, fDone>>
evars == <<mState, mReceiveCallbacks, mClosedCallbacks, epc, eCallback,
           eSends, eReads, eEvents, eClosedCalls, eReceiveCalls, eEnd, eRet>>
svars == <<ConnectionMaxNumber, ActiveSockets, ConnectionFD, spc, workers,
           openFDs, sEvents, sAccepts, sK, sAssert, PortNo>>
qvars == <<TQ, tqElems, tqResult, tqCall>>
ovars == <<handles, blocks, hCall>>
vars == <<hvars, fvars, evars, svars, qvars, ovars>>

----------------------------------------------------------------------------
(* Bounds *)

\* longest raw chunk the transport delivers in Spec
MaxChunkLen == 2
\* number of raw chunks the transport delivers in Spec
MaxChunks == 2
\* longest raw chunk the splitting function is applied to in SplitSpec
MaxSplitLen == 3
\* most listeners of one kind that createServer registers in EngineSpec
MaxCallbacks == 2
\* most chunks one connection reads in EngineSpec
MaxReads == 2
\* most send() calls one receive listener makes per chunk in EngineSpec
MaxSends == 1
\* largest ConnectionMaxNumber passed to startServer in ServerSpec
MaxConnections == 2
\* number of connection handles the platform has in ServerSpec
NumFDs == 2
\* most accept calls of the listening loop in ServerSpec
MaxAccepts == 3
\* most elements a TransparentQueue holds in QueueSpec
MaxQueueLen == 3
\* number of IntrusiveConnection objects in HandleSpec
MaxHandles == 3
\* number of connections, each with its Status block, in HandleSpec
MaxBlocks == 2

----------------------------------------------------------------------------
(* Strings *)

NUL == "NUL"

\* IntrusiveConnection::Reject: the code "REJECT"
RejectCode == <<"R", "E", "J", "E", "C", "T">>

\* the characters of chunks in Spec and in SplitSpec
ProtoChars == {"a", "$"}
SplitChars == {"a", "b", "$", NUL}
Delimiters == {"$", NUL}

RECURSIVE StringsUpTo(_, _)
StringsUpTo(chars, n) ==
  IF n = 0 THEN {<<>>}
  ELSE LET shorter == StringsUpTo(chars, n - 1)
       IN shorter \cup {Append(s, c) : s \in {t \in shorter : Len(t) = n - 1}, c \in chars}

Foo == <<"f", "o", "o">>
Bar == <<"b", "a", "r">>
Baz == <<"b", "a", "z">>

\* the handler passed to answer(): any function from requests to responses;
\* this one marks the request so that a response is recognisable
Handler(request) == <<"r">> \o request

----------------------------------------------------------------------------
(* TransparentQueue: the representation *)

\* pointers are addresses, ordered as numbers; 0 is the null pointer
nullptr == 0

\* TransparentQueue(): mIsSingle(true), mIsEmpty(true), mValue(nullptr).
\* mValue and mQueue share a union: the member that is not in use is kept at
\* nullptr, respectively empty, and is never read.
EmptyQueue ==
  [mIsSingle |-> TRUE, mIsEmpty |-> TRUE, mValue |-> nullptr, mQueue |-> <<>>]

\* no TransparentQueue in use: two objects just constructed
QueueIdle ==
  /\ TQ = [i \in {1, 2} |-> EmptyQueue]
  /\ tqElems = [i \in {1, 2} |-> <<>>]
  /\ tqResult = [done |-> FALSE, eq |-> FALSE, lt |-> FALSE]
  /\ tqCall = [op |-> "none", i |-> 1, V |-> nullptr, ret |-> nullptr,
               before |-> <<>>]

----------------------------------------------------------------------------
(* IntrusiveConnection handles: the representation *)

Handles == 1..MaxHandles
Blocks == 1..MaxBlocks

\* no connection made: no Status allocated, no handle constructed
HandleIdle ==
  /\ handles = [h \in Handles |-> [life |-> "unborn", mStatus |-> nullptr]]
  /\ blocks = [b \in Blocks |-> [made |-> FALSE, mReject |-> FALSE]]
  /\ hCall = [op |-> "none", set |-> FALSE]

----------------------------------------------------------------------------
(* Chunk splitting: std::getline on a std::stringstream *)

\* a fresh std::stringstream IS(Request): position 1, no state bits
NewStream == [pos |-> 1, eof |-> FALSE, fail |-> FALSE]

\* std::getline(IS, Item, Delimiter): the pair <<stream, Item>> afterwards
GetLine(str, IS, Item, d) ==
  IF IS.eof \/ IS.fail
    THEN <<[IS EXCEPT !.fail = TRUE], Item>>      \* sentry fails, Item is kept
    ELSE LET hits == {i \in IS.pos..Len(str) : str[i] = d}
         IN IF hits # {}
              THEN LET j == CHOOSE i \in hits : \A k \in hits : i <= k
                   IN <<[IS EXCEPT !.pos = j + 1], SubSeq(str, IS.pos, j - 1)>>
              ELSE <<[pos |-> Len(str) + 1, eof |-> TRUE,
                      fail |-> IS.pos > Len(str)],
                     SubSeq(str, IS.pos, Len(str))>>

\* while (std::getline(IS, Item, Delimiter) && !IS.eof()) Buffer.push(Item);
\* the pair <<Buffer, Item>> when the loop ends
RECURSIVE SplitLoop(_, _, _, _, _)
SplitLoop(str, IS, Item, d, Buf) ==
  LET r == GetLine(str, IS, Item, d)
  IN IF ~r[1].fail /\ ~r[1].eof
       THEN SplitLoop(str, r[1], r[2], d, Append(Buf, r[2]))
       ELSE <<Buf, r[2]>>

\* SplitChunk with the test `if (!Item.empty())` left out
SplitChunkPushAlways(Request, d) ==
  LET r == SplitLoop(Request, NewStream, <<>>, d, <<>>)
  IN Append(r[1], r[2])

\* SplitChunk pushing an item only when it is not empty, inside the loop too
SplitChunkSkipEmpty(Request, d) ==
  LET r == SplitLoop(Request, NewStream, <<>>, d, <<>>)
      all == Append(r[1], r[2])
  IN SelectSeq(all, LAMBDA Item : Item # <<>>)

\* the queue Buffer the receive listener builds from a raw chunk
SplitChunk(Request, d) ==
  LET r == SplitLoop(Request, NewStream, <<>>, d, <<>>)
  IN IF r[2] # <<>> THEN Append(r[1], r[2]) ELSE r[1]

----------------------------------------------------------------------------
(* The hand-off between the network thread and the worker thread *)

rside == <<mReceiveData, mIsReceive, mClose>>
sside == <<mSendData, mIsSend, mReject>>
nloc == <<Reject, rejectDeletes, Buffer, nData>>
wloc == <<mStatus, wData, wClose>>
hist == <<delivered, published, handled, sent>>
chunkv == <<nChunks, chunk>>
ansv == <<ansCalls, ansRet>>
others == <<fvars, evars, svars, qvars, ovars>>
ubv == <<uaf, nuaf>>

\* the raw chunks the transport delivers
ProtoChunks == StringsUpTo(ProtoChars, MaxChunkLen)

\* values of the variables of the hand-off while another specification runs
HandoffIdle ==
  /\ mReceiveMutex = "free" /\ mSendMutex = "free"
  /\ mReceiveData = <<>> /\ mSendData = <<>>
  /\ mIsReceive = FALSE /\ mIsSend = FALSE /\ mClose = FALSE /\ mReject = FALSE
  /\ csDeletes = 0 /\ Reject = FALSE /\ rejectDeletes = 0
  /\ Buffer = <<>> /\ nData = <<>> /\ npc = "idle"
  /\ mStatus = "CS" /\ wData = <<>> /\ wClose = FALSE /\ wpc = "run"
  /\ delivered = <<>> /\ published = <<>> /\ handled = <<>> /\ sent = <<>>
  /\ nChunks = 0
  /\ chunk = [raw |-> <<>>, reqs |-> <<>>, sent |-> <<>>, rejected |-> FALSE,
              pub |-> 0]
  /\ ansCalls = 0 /\ ansRet = "none" /\ uaf = FALSE /\ nuaf = FALSE

\* IntrusiveConnection::connect: a fresh Status, *Reject = false, the worker
\* started with the handle IntrusiveConnection(CS), both listeners installed
connect == HandoffIdle /\ Delimiter \in Delimiters

\* an access of the network thread to the status block is a use after free
\* once `delete CS` has run
NetTouch == nuaf' = (nuaf \/ csDeletes > 0) /\ UNCHANGED uaf

\* S->send(Message) as seen by the listener, answering published request k
SocketSend(Message, k) ==
  /\ sent' = Append(sent, [msg |-> Message, req |-> k])
  /\ chunk' = [chunk EXCEPT !.sent = Append(@, Message)]

\* ---- the receive listener (network thread)

\* ReceiveListener with the test of *Reject left out
ReceiveListenerNoRejectTest(Request) ==
  /\ npc = "idle" /\ nChunks < MaxChunks
  /\ nChunks' = nChunks + 1
  /\ Buffer' = SplitChunk(Request, Delimiter)
  /\ delivered' = delivered \o Buffer'
  /\ npc' = "loop"
  /\ chunk' = [raw |-> Request, reqs |-> SplitChunk(Request, Delimiter),
               sent |-> <<>>, rejected |-> Reject, pub |-> Len(published)]
  /\ UNCHANGED <<mReceiveMutex, mSendMutex, rside, sside, csDeletes, Reject,
                 rejectDeletes, Delimiter, nData, wloc, wpc, published,
                 handled, sent, ansv, ubv, others>>

\* the transport invokes the receive listener with a raw chunk: the test of
\* *Reject and the splitting of the chunk into Buffer
ReceiveListener(Request) ==
  /\ npc = "idle" /\ nChunks < MaxChunks
  /\ nChunks' = nChunks + 1
  /\ IF Reject
       THEN /\ npc' = "rejected"
            /\ UNCHANGED <<Buffer, delivered>>
       ELSE /\ Buffer' = SplitChunk(Request, Delimiter)
            /\ delivered' = delivered \o Buffer'
            /\ npc' = "loop"
  /\ chunk' = [raw |-> Request, reqs |-> SplitChunk(Request, Delimiter),
               sent |-> <<>>, rejected |-> Reject, pub |-> Len(published)]
  /\ UNCHANGED <<mReceiveMutex, mSendMutex, rside, sside, csDeletes, Reject,
                 rejectDeletes, Delimiter, nData, wloc, wpc, published,
                 handled, sent, ansv, ubv, others>>

\* S->send(Reject + Delimiter); return;
SendReject ==
  /\ npc = "rejected"
  /\ SocketSend(Append(RejectCode, Delimiter), 0)
  /\ npc' = "idle"
  /\ UNCHANGED <<mReceiveMutex, mSendMutex, rside, sside, csDeletes, nloc,
                 Delimiter, wloc, wpc, delivered, published, handled,
                 nChunks, ansv, ubv, others>>

\* while (!Buffer.empty()): the loop ends and the listener returns
LoopEnd ==
  /\ npc = "loop" /\ Buffer = <<>>
  /\ npc' = "idle"
  /\ UNCHANGED <<mReceiveMutex, mSendMutex, rside, sside, csDeletes, nloc,
                 Delimiter, wloc, wpc, hist, chunkv, ansv, ubv, others>>

\* lock mReceiveMutex; mIsReceive = true; mReceiveData = Buffer.front()
Publish ==
  /\ npc = "loop" /\ Buffer # <<>>
  /\ mReceiveMutex = "free"
  /\ mReceiveMutex' = "net"
  /\ mIsReceive' = TRUE
  /\ mReceiveData' = Head(Buffer)
  /\ published' = Append(published, Head(Buffer))
  /\ npc' = "published"
  /\ NetTouch
  /\ UNCHANGED <<mSendMutex, mClose, sside, csDeletes, nloc, Delimiter, wloc,
                 wpc, delivered, handled, sent, chunkv, ansv, others>>

\* unlock; mReceiveEvent.notify_one(); Buffer.pop()
PublishUnlock ==
  /\ npc = "published"
  /\ mReceiveMutex' = "free"
  /\ Buffer' = Tail(Buffer)
  /\ npc' = "wait"
  /\ NetTouch
  /\ UNCHANGED <<mSendMutex, rside, sside, csDeletes, Reject, rejectDeletes,
                 nData, Delimiter, wloc, wpc, hist, chunkv, ansv, others>>

\* TakeResponse with the wait on mSendEvent left out
TakeResponseNoWait ==
  /\ npc = "wait"
  /\ mSendMutex = "free"
  /\ mSendMutex' = "net"
  /\ nData' = IF mIsSend THEN mSendData ELSE RejectCode
  /\ Reject' = mReject
  /\ mSendData' = <<>>
  /\ mIsSend' = FALSE
  /\ npc' = "taken"
  /\ NetTouch
  /\ UNCHANGED <<mReceiveMutex, rside, mReject, csDeletes, rejectDeletes,
                 Buffer, Delimiter, wloc, wpc, hist, chunkv, ansv, others>>

\* TakeResponse preferring the rejection: Data = mReject ? Reject() : mSendData
TakeResponseRejectFirst ==
  /\ npc = "wait"
  /\ mSendMutex = "free"
  /\ mIsSend \/ mReject
  /\ mSendMutex' = "net"
  /\ nData' = IF mReject THEN RejectCode ELSE mSendData
  /\ Reject' = mReject
  /\ mSendData' = <<>>
  /\ mIsSend' = FALSE
  /\ npc' = "taken"
  /\ NetTouch
  /\ UNCHANGED <<mReceiveMutex, rside, mReject, csDeletes, rejectDeletes,
                 Buffer, Delimiter, wloc, wpc, hist, chunkv, ansv, others>>

\* TakeResponse waiting for a response only: wait(Lock, mIsSend)
TakeResponseOnlyResponse ==
  /\ npc = "wait"
  /\ mSendMutex = "free"
  /\ mIsSend
  /\ mSendMutex' = "net"
  /\ nData' = IF mIsSend THEN mSendData ELSE RejectCode
  /\ Reject' = mReject
  /\ mSendData' = <<>>
  /\ mIsSend' = FALSE
  /\ npc' = "taken"
  /\ NetTouch
  /\ UNCHANGED <<mReceiveMutex, rside, mReject, csDeletes, rejectDeletes,
                 Buffer, Delimiter, wloc, wpc, hist, chunkv, ansv, others>>

\* mSendEvent.wait(Lock, mIsSend || mReject) and the body under the lock
TakeResponse ==
  /\ npc = "wait"
  /\ mSendMutex = "free"
  /\ mIsSend \/ mReject
  /\ mSendMutex' = "net"
  /\ nData' = IF mIsSend THEN mSendData ELSE RejectCode
  /\ Reject' = mReject
  /\ mSendData' = <<>>
  /\ mIsSend' = FALSE
  /\ npc' = "taken"
  /\ NetTouch
  /\ UNCHANGED <<mReceiveMutex, rside, mReject, csDeletes, rejectDeletes,
                 Buffer, Delimiter, wloc, wpc, hist, chunkv, ansv, others>>

\* unlock mSendMutex
TakeUnlock ==
  /\ npc = "taken"
  /\ mSendMutex' = "free"
  /\ npc' = "send"
  /\ NetTouch
  /\ UNCHANGED <<mReceiveMutex, rside, sside, csDeletes, nloc, Delimiter,
                 wloc, wpc, hist, chunkv, ansv, others>>

\* S->send(Data + Delimiter)
SendResponse ==
  /\ npc = "send"
  /\ SocketSend(Append(nData, Delimiter), Len(published))
  /\ npc' = IF Reject THEN "delete" ELSE "loop"
  /\ UNCHANGED <<mReceiveMutex, mSendMutex, rside, sside, csDeletes, nloc,
                 Delimiter, wloc, wpc, delivered, published, handled,
                 nChunks, ansv, ubv, others>>

\* DeleteOnReject with `break` left out
DeleteOnRejectNoBreak ==
  /\ npc = "delete"
  /\ csDeletes' = csDeletes + 1
  /\ npc' = "loop"
  /\ NetTouch
  /\ UNCHANGED <<mReceiveMutex, mSendMutex, rside, sside, nloc, Delimiter,
                 wloc, wpc, hist, chunkv, ansv, others>>

\* if (*Reject) { delete CS; break; }
DeleteOnReject ==
  /\ npc = "delete"
  /\ csDeletes' = csDeletes + 1
  /\ npc' = "idle"
  /\ NetTouch
  /\ UNCHANGED <<mReceiveMutex, mSendMutex, rside, sside, nloc, Delimiter,
                 wloc, wpc, hist, chunkv, ansv, others>>

\* ---- the closed listener (network thread)

\* ClosedListener with the test of *Reject left out
ClosedListenerNoRejectTest ==
  /\ npc = "idle"
  /\ npc' = "close"
  /\ UNCHANGED <<mReceiveMutex, mSendMutex, rside, sside, csDeletes, nloc,
                 Delimiter, wloc, wpc, hist, chunkv, ansv, ubv, others>>

\* the transport invokes the closed listener: if (!*Reject)
ClosedListener ==
  /\ npc = "idle"
  /\ npc' = IF Reject THEN "deleteReject" ELSE "close"
  /\ UNCHANGED <<mReceiveMutex, mSendMutex, rside, sside, csDeletes, nloc,
                 Delimiter, wloc, wpc, hist, chunkv, ansv, ubv, others>>

\* lock mReceiveMutex; mClose = true
SetClose ==
  /\ npc = "close"
  /\ mReceiveMutex = "free"
  /\ mReceiveMutex' = "net"
  /\ mClose' = TRUE
  /\ npc' = "closeSet"
  /\ NetTouch
  /\ UNCHANGED <<mSendMutex, mReceiveData, mIsReceive, sside, csDeletes, nloc,
                 Delimiter, wloc, wpc, hist, chunkv, ansv, others>>

\* unlock; mReceiveEvent.notify_one()
CloseUnlock ==
  /\ npc = "closeSet"
  /\ mReceiveMutex' = "free"
  /\ npc' = "waitReject"
  /\ NetTouch
  /\ UNCHANGED <<mSendMutex, rside, sside, csDeletes, nloc, Delimiter, wloc,
                 wpc, hist, chunkv, ansv, others>>

\* lock mSendMutex; mSendEvent.wait(Lock, mReject)
WaitReject ==
  /\ npc = "waitReject"
  /\ mSendMutex = "free"
  /\ mReject
  /\ mSendMutex' = "net"
  /\ npc' = "acked"
  /\ NetTouch
  /\ UNCHANGED <<mReceiveMutex, rside, sside, csDeletes, nloc, Delimiter,
                 wloc, wpc, hist, chunkv, ansv, others>>

\* unlock mSendMutex
AckUnlock ==
  /\ npc = "acked"
  /\ mSendMutex' = "free"
  /\ npc' = "deleteCS"
  /\ NetTouch
  /\ UNCHANGED <<mReceiveMutex, rside, sside, csDeletes, nloc, Delimiter,
                 wloc, wpc, hist, chunkv, ansv, others>>

\* delete CS
DeleteOnClose ==
  /\ npc = "deleteCS"
  /\ csDeletes' = csDeletes + 1
  /\ npc' = "deleteReject"
  /\ NetTouch
  /\ UNCHANGED <<mReceiveMutex, mSendMutex, rside, sside, nloc, Delimiter,
                 wloc, wpc, hist, chunkv, ansv, others>>

\* delete Reject; the listener returns and the connection is over
DeleteReject ==
  /\ npc = "deleteReject"
  /\ rejectDeletes' = rejectDeletes + 1
  /\ npc' = "closed"
  /\ UNCHANGED <<mReceiveMutex, mSendMutex, rside, sside, csDeletes, Reject,
                 Buffer, nData, Delimiter, wloc, wpc, hist, chunkv, ansv, ubv,
                 others>>

----------------------------------------------------------------------------
(* The worker thread: the server entry point with its handle *)

\* an access of the worker to the status block is a use after free once
\* `delete CS` has run
Touch == uaf' = (uaf \/ csDeletes > 0) /\ UNCHANGED nuaf

\* answer(F): if (!mStatus) return false;
AnswerEnter ==
  /\ wpc = "run"
  /\ ansCalls' = 0
  /\ IF mStatus = "null"
       THEN ansRet' = "false" /\ wpc' = "run"
       ELSE ansRet' = "none" /\ wpc' = "answer"
  /\ UNCHANGED <<mReceiveMutex, mSendMutex, rside, sside, csDeletes, nloc,
                 npc, Delimiter, wloc, hist, chunkv, ubv, others>>

\* AnswerWait with `mIsReceive = false` left out
AnswerWaitKeepFlag ==
  /\ wpc = "answer"
  /\ mReceiveMutex = "free"
  /\ mIsReceive \/ mClose
  /\ mReceiveMutex' = "worker"
  /\ wClose' = mClose
  /\ wData' = mReceiveData
  /\ mReceiveData' = <<>>
  /\ Touch
  /\ wpc' = "woken"
  /\ UNCHANGED <<mSendMutex, mIsReceive, mClose, sside, csDeletes, nloc, npc,
                 Delimiter, mStatus, hist, chunkv, ansv, others>>

\* lock mReceiveMutex; mReceiveEvent.wait(Lock, mIsReceive || mClose);
\* Close = mClose; Data = mReceiveData; mReceiveData.clear(); mIsReceive = false
AnswerWait ==
  /\ wpc = "answer"
  /\ mReceiveMutex = "free"
  /\ mIsReceive \/ mClose
  /\ mReceiveMutex' = "worker"
  /\ wClose' = mClose
  /\ wData' = mReceiveData
  /\ mReceiveData' = <<>>
  /\ mIsReceive' = FALSE
  /\ Touch
  /\ wpc' = "woken"
  /\ UNCHANGED <<mSendMutex, mClose, sside, csDeletes, nloc, npc, Delimiter,
                 mStatus, hist, chunkv, ansv, others>>

\* AnswerUnlock with the test of Close left out
AnswerUnlockNoCloseTest ==
  /\ wpc = "woken"
  /\ mReceiveMutex' = "free"
  /\ Touch
  /\ wpc' = "handler"
  /\ UNCHANGED <<mSendMutex, rside, sside, csDeletes, nloc, npc, Delimiter,
                 wloc, hist, chunkv, ansv, others>>

\* AnswerUnlock keeping mReceiveMutex: the scope of Lock not closed before
\* the test of Close
AnswerUnlockKeepLock ==
  /\ wpc = "woken"
  /\ Touch
  /\ wpc' = IF wClose THEN "reject" ELSE "handler"
  /\ UNCHANGED <<mReceiveMutex, mSendMutex, rside, sside, csDeletes, nloc, npc,
                 Delimiter, wloc, hist, chunkv, ansv, others>>

\* unlock mReceiveMutex; if (Close)
AnswerUnlock ==
  /\ wpc = "woken"
  /\ mReceiveMutex' = "free"
  /\ Touch
  /\ wpc' = IF wClose THEN "reject" ELSE "handler"
  /\ UNCHANGED <<mSendMutex, rside, sside, csDeletes, nloc, npc, Delimiter,
                 wloc, hist, chunkv, ansv, others>>

\* closing path: lock mSendMutex; mReject = true
AnswerReject ==
  /\ wpc = "reject"
  /\ mSendMutex = "free"
  /\ mSendMutex' = "worker"
  /\ mReject' = TRUE
  /\ Touch
  /\ wpc' = "rejectSet"
  /\ UNCHANGED <<mReceiveMutex, rside, mSendData, mIsSend, csDeletes, nloc,
                 npc, Delimiter, wloc, hist, chunkv, ansv, others>>

\* closing path: unlock mSendMutex
AnswerRejectUnlock ==
  /\ wpc = "rejectSet"
  /\ mSendMutex' = "free"
  /\ Touch
  /\ wpc' = "rejectNotify"
  /\ UNCHANGED <<mReceiveMutex, rside, sside, csDeletes, nloc, npc, Delimiter,
                 wloc, hist, chunkv, ansv, others>>

\* AnswerRejectNotify with `mStatus = nullptr` left out
AnswerRejectNotifyKeepStatus ==
  /\ wpc = "rejectNotify"
  /\ Touch
  /\ \/ /\ wpc' = "run" /\ ansRet' = "false"
        /\ UNCHANGED <<npc, mStatus>>
     \/ /\ csDeletes > 0
        /\ wpc' = "crashed" /\ npc' = "crashed"
        /\ UNCHANGED <<mStatus, ansRet>>
  /\ UNCHANGED <<mReceiveMutex, mSendMutex, rside, sside, csDeletes, nloc,
                 Delimiter, wData, wClose, hist, chunkv, ansCalls, others>>

\* closing path: mStatus->mSendEvent.notify_one(); mStatus = nullptr;
\* return false. Notifying a deleted condition variable is undefined: the call
\* comes back or the process dies.
AnswerRejectNotify ==
  /\ wpc = "rejectNotify"
  /\ Touch
  /\ \/ /\ wpc' = "run" /\ mStatus' = "null" /\ ansRet' = "false"
        /\ UNCHANGED npc
     \/ /\ csDeletes > 0
        /\ wpc' = "crashed" /\ npc' = "crashed"
        /\ UNCHANGED <<mStatus, ansRet>>
  /\ UNCHANGED <<mReceiveMutex, mSendMutex, rside, sside, csDeletes, nloc,
                 Delimiter, wData, wClose, hist, chunkv, ansCalls, others>>

\* Data = F(Data)
InvokeHandler ==
  /\ wpc = "handler"
  /\ handled' = Append(handled, wData)
  /\ ansCalls' = ansCalls + 1
  /\ wData' = Handler(wData)
  /\ wpc' = "respond"
  /\ UNCHANGED <<mReceiveMutex, mSendMutex, rside, sside, csDeletes, nloc,
                 npc, Delimiter, mStatus, wClose, delivered, published, sent,
                 chunkv, ansRet, ubv, others>>

\* lock mSendMutex; mSendData = Data; mIsSend = true
PublishResponse ==
  /\ wpc = "respond"
  /\ mSendMutex = "free"
  /\ mSendMutex' = "worker"
  /\ mSendData' = wData
  /\ mIsSend' = TRUE
  /\ Touch
  /\ wpc' = "responded"
  /\ UNCHANGED <<mReceiveMutex, rside, mReject, csDeletes, nloc, npc,
                 Delimiter, wloc, hist, chunkv, ansv, others>>

\* unlock mSendMutex
ResponseUnlock ==
  /\ wpc = "responded"
  /\ mSendMutex' = "free"
  /\ Touch
  /\ wpc' = "notify"
  /\ UNCHANGED <<mReceiveMutex, rside, sside, csDeletes, nloc, npc, Delimiter,
                 wloc, hist, chunkv, ansv, others>>

\* mStatus->mSendEvent.notify_one(); return true
ResponseNotify ==
  /\ wpc = "notify"
  /\ Touch
  /\ \/ /\ wpc' = "run" /\ ansRet' = "true"
        /\ UNCHANGED npc
     \/ /\ csDeletes > 0
        /\ wpc' = "crashed" /\ npc' = "crashed"
        /\ UNCHANGED ansRet
  /\ UNCHANGED <<mReceiveMutex, mSendMutex, rside, sside, csDeletes, nloc,
                 Delimiter, wloc, hist, chunkv, ansCalls, others>>

\* the server entry point returns: ~IntrusiveConnection(): if (!mStatus) return
Destructor ==
  /\ wpc = "run"
  /\ wpc' = IF mStatus = "null" THEN "done" ELSE "dtor"
  /\ UNCHANGED <<mReceiveMutex, mSendMutex, rside, sside, csDeletes, nloc,
                 npc, Delimiter, wloc, hist, chunkv, ansv, ubv, others>>

\* destructor: lock mSendMutex; mReject = true
DtorReject ==
  /\ wpc = "dtor"
  /\ mSendMutex = "free"
  /\ mSendMutex' = "worker"
  /\ mReject' = TRUE
  /\ Touch
  /\ wpc' = "dtorSet"
  /\ UNCHANGED <<mReceiveMutex, rside, mSendData, mIsSend, csDeletes, nloc,
                 npc, Delimiter, wloc, hist, chunkv, ansv, others>>

\* destructor: unlock mSendMutex
DtorUnlock ==
  /\ wpc = "dtorSet"
  /\ mSendMutex' = "free"
  /\ Touch
  /\ wpc' = "dtorNotify"
  /\ UNCHANGED <<mReceiveMutex, rside, sside, csDeletes, nloc, npc, Delimiter,
                 wloc, hist, chunkv, ansv, others>>

\* destructor: mStatus->mSendEvent.notify_one()
DtorNotify ==
  /\ wpc = "dtorNotify"
  /\ Touch
  /\ \/ wpc' = "done" /\ UNCHANGED npc
     \/ csDeletes > 0 /\ wpc' = "crashed" /\ npc' = "crashed"
  /\ UNCHANGED <<mReceiveMutex, mSendMutex, rside, sside, csDeletes, nloc,
                 Delimiter, wloc, hist, chunkv, ansv, others>>

\* values of the variables of the other specifications while Spec runs
SplitIdle == fChunk = <<>> /\ fDelim = NUL /\ fOut = <<>> /\ fDone = FALSE
EngineIdle ==
  /\ mState = "Open" /\ mReceiveCallbacks = 0 /\ mClosedCallbacks = 0
  /\ epc = "off" /\ eCallback = 0 /\ eSends = 0 /\ eReads = 0
  /\ eEvents = <<>> /\ eClosedCalls = <<>> /\ eReceiveCalls = <<>>
  /\ eEnd = "none" /\ eRet = -1
ServerIdle ==
  /\ ConnectionMaxNumber = 0 /\ ActiveSockets = <<>> /\ ConnectionFD = 0
  /\ spc = "off" /\ workers = <<>> /\ openFDs = {} /\ sEvents = <<>>
  /\ sAccepts = 0 /\ sK = 0 /\ sAssert = FALSE /\ PortNo = 0

Init ==
  connect /\ SplitIdle /\ EngineIdle /\ ServerIdle /\ QueueIdle /\ HandleIdle

NetworkThread ==
  \/ \E Request \in ProtoChunks : ReceiveListener(Request)
  \/ SendReject \/ LoopEnd \/ Publish \/ PublishUnlock \/ TakeResponse
  \/ TakeUnlock \/ SendResponse \/ DeleteOnReject
  \/ ClosedListener \/ SetClose \/ CloseUnlock \/ WaitReject \/ AckUnlock
  \/ DeleteOnClose \/ DeleteReject

WorkerThread ==
  \/ AnswerEnter \/ AnswerWait \/ AnswerUnlock \/ AnswerReject
  \/ AnswerRejectUnlock \/ AnswerRejectNotify \/ InvokeHandler
  \/ PublishResponse \/ ResponseUnlock \/ ResponseNotify
  \/ Destructor \/ DtorReject \/ DtorUnlock \/ DtorNotify

Next == NetworkThread \/ WorkerThread

Spec == Init /\ [][Next]_vars

\* the steps the network thread takes by itself, once the transport has
\* invoked a listener
NetworkProgress ==
  \/ SendReject \/ LoopEnd \/ Publish \/ PublishUnlock \/ TakeResponse
  \/ TakeUnlock \/ SendResponse \/ DeleteOnReject
  \/ SetClose \/ CloseUnlock \/ WaitReject \/ AckUnlock
  \/ DeleteOnClose \/ DeleteReject

\* the raw chunks of the runs in which progress is checked: progress does
\* not depend on what the requests hold, so they hold delimiters only
ProgressChunks == StringsUpTo({"$"}, MaxChunkLen)

FairNext ==
  \/ \E Request \in ProgressChunks : ReceiveListener(Request)
  \/ ClosedListener
  \/ NetworkProgress
  \/ WorkerThread

\* the raw chunks of the runs in which the requests made of empty segments
\* are followed to the handler: the empty chunk, one delimiter, foo$$bar,
\* foo$bar$
SegmentChunks ==
  { <<>>, <<"$">>, Foo \o <<"$", "$">> \o Bar, Foo \o <<"$">> \o Bar \o <<"$">> }

SegmentNext ==
  \/ \E Request \in SegmentChunks : ReceiveListener(Request)
  \/ ClosedListener
  \/ NetworkProgress
  \/ WorkerThread

SegmentSpec == Init /\ [][SegmentNext]_vars

\* both threads keep running: a thread that can take a step eventually takes
\* one; the handler terminates; the server entry point, whenever it runs,
\* either calls answer() again or returns. When the transport delivers a
\* chunk or reports the close is left open.
FairSpec ==
  Init /\ [][FairNext]_vars /\ WF_vars(NetworkProgress) /\ WF_vars(WorkerThread)

----------------------------------------------------------------------------
(* Claims about the hand-off, checked under Spec *)

IsPrefix(s, t) == Len(s) <= Len(t) /\ s = SubSeq(t, 1, Len(s))
Last(s) == s[Len(s)]

\* C1: while no rejection and no close has occurred, the handler invocations
\* are the published requests in arrival order, one at a time; the k-th
\* message passed to Socket::send is the handler's response to request k
\* followed by the delimiter and is sent before request k+1 is published;
\* and when the listener has returned, the N requests it queued have caused
\* exactly N handler invocations and N sends.
C1_InOrderOneAtATime ==
  (~mReject /\ ~mClose) =>
    /\ IsPrefix(handled, published)
    /\ IsPrefix(published, delivered)
    /\ Len(published) <= Len(handled) + 1
    /\ Len(published) <= Len(sent) + 1
    /\ Len(sent) <= Len(handled)
    /\ \A k \in 1..Len(sent) :
         sent[k] = [msg |-> Append(Handler(published[k]), Delimiter), req |-> k]
    /\ npc = "idle" => handled = delivered /\ Len(sent) = Len(delivered)

C1_Witness ==
  /\ ~mReject /\ ~mClose /\ npc = "idle"
  /\ Len(handled) = 3 /\ handled = delivered /\ Len(sent) = 3
  /\ nChunks = 2

\* C2: a published request is never overwritten before answer() consumed it,
\* and a published response is never overwritten before the receive
\* listener took it: the listener publishes a request only while mIsReceive
\* is clear and answer() publishes a response only while mIsSend is clear.
C2_NoOverwrite ==
  [][ /\ (published' # published) => ~mIsReceive
      /\ (wpc = "respond" /\ wpc' = "responded") => ~mIsSend ]_vars

C2_Witness ==
  /\ Len(published) = 2 /\ mIsReceive /\ mReceiveData = published[2]
  /\ Len(sent) = 1 /\ ~mIsSend

\* C3: answer(F) returns true only after exactly one invocation of F, made
\* with the pending request, whose return value it published as the pending
\* response; it returns false only without any invocation of F; and a call
\* that woke up with the connection flagged closing never invokes F and
\* does not return true.
C3_AnswerContract ==
  /\ ansRet = "true" => ansCalls = 1 /\ ~wClose
  /\ ansRet = "false" => ansCalls = 0
  /\ wClose => ansCalls = 0 /\ ansRet # "true"
  /\ wpc \in {"respond", "responded"} =>
       /\ ansCalls = 1
       /\ Last(handled) = Last(published)
       /\ wData = Handler(Last(published))
  /\ wpc = "responded" => mIsSend /\ mSendData = Handler(Last(handled))

C3_Witness ==
  /\ ansRet = "false" /\ wClose /\ wpc = "run" /\ mStatus = "null"
  /\ Len(handled) >= 1

\* C4: no step of the worker accesses the status block after the network
\* thread has deleted it.
C4_NoUseAfterDelete == ~uaf

\* C5: when the receive listener returns from a chunk during which it
\* observed the rejection, every request of the chunk has got a message: the
\* handler's response or REJECT, each followed by the delimiter.
C5_RejectForEveryQueued ==
  (npc = "idle" /\ Reject /\ ~chunk.rejected) =>
    /\ Len(chunk.sent) = Len(chunk.reqs)
    /\ \A k \in 1..Len(chunk.sent) :
         chunk.sent[k] \in {Append(Handler(chunk.reqs[k]), Delimiter),
                            Append(RejectCode, Delimiter)}

\* C6: a chunk that arrives after the receive listener recorded a rejection
\* is answered with exactly one message, REJECT followed by the delimiter,
\* and nothing else happens: no request is published, the listener never
\* waits, and the network thread does not touch the deleted status block.
C6_RejectLaterChunks ==
  /\ ~nuaf
  /\ chunk.rejected =>
       /\ npc \in {"rejected", "idle", "deleteReject", "closed", "crashed"}
       /\ Len(published) = chunk.pub
       /\ npc = "rejected" => chunk.sent = <<>>
       /\ npc \in {"idle", "deleteReject", "closed"} =>
            chunk.sent = <<Append(RejectCode, Delimiter)>>
       /\ chunk.sent \in {<<>>, <<Append(RejectCode, Delimiter)>>}
       /\ Reject /\ csDeletes = 1

C6_Witness ==
  /\ chunk.rejected /\ npc = "idle" /\ nChunks = 2
  /\ chunk.reqs # <<>>
  /\ chunk.sent = <<Append(RejectCode, Delimiter)>>

----------------------------------------------------------------------------
(* The chunk splitting of the receive listener as a function: SplitSpec *)

\* the chunks of the documentation: foo$bar$baz, foo$bar$, foo$bar, foo$$bar
SplitExamples ==
  { Foo \o <<"$">> \o Bar \o <<"$">> \o Baz,
    Foo \o <<"$">> \o Bar \o <<"$">>,
    Foo \o <<"$">> \o Bar,
    Foo \o <<"$", "$">> \o Bar }

SplitInputs == StringsUpTo(SplitChars, MaxSplitLen) \cup SplitExamples

SplitInit ==
  /\ fChunk \in SplitInputs /\ fDelim \in Delimiters
  /\ fOut = <<>> /\ fDone = FALSE
  /\ HandoffIdle /\ Delimiter = NUL /\ EngineIdle /\ ServerIdle /\ QueueIdle
  /\ HandleIdle

\* the receive listener builds Buffer from the chunk
ApplySplit ==
  /\ ~fDone
  /\ fOut' = SplitChunk(fChunk, fDelim)
  /\ fDone' = TRUE
  /\ UNCHANGED <<fChunk, fDelim, hvars, evars, svars, qvars, ovars>>

SplitNext == ApplySplit

SplitSpec == SplitInit /\ [][SplitNext]_vars

\* the positions of the delimiter d in the chunk s, and the k-th of them
DelimiterPositions(s, d) == {i \in 1..Len(s) : s[i] = d}
KthPosition(s, d, k) ==
  IF k = 0 THEN 0
  ELSE CHOOSE i \in DelimiterPositions(s, d) :
         Cardinality({j \in DelimiterPositions(s, d) : j <= i}) = k

\* every substring terminated by d, in order, and the substring after the
\* last d when it is not empty
Segments(s, d) ==
  LET n == Cardinality(DelimiterPositions(s, d))
      terminated == [k \in 1..n |->
                       SubSeq(s, KthPosition(s, d, k - 1) + 1,
                                 KthPosition(s, d, k) - 1)]
      trailing == SubSeq(s, KthPosition(s, d, n) + 1, Len(s))
  IN IF trailing # <<>> THEN Append(terminated, trailing) ELSE terminated

\* C7 as stated: with a non-NUL delimiter the requests are the terminated
\* substrings and the non-empty trailing substring; with the NUL delimiter
\* the chunk is exactly one request equal to the whole chunk.
C7_SplitAsStated ==
  fDone => fOut = IF fDelim = NUL THEN <<fChunk>> ELSE Segments(fChunk, fDelim)

\* C7 amended: whatever the delimiter, NUL included, the requests are the
\* substrings terminated by the delimiter, in order, and the trailing
\* substring exactly when it is not empty; so with the NUL delimiter a
\* non-empty chunk holding no NUL character is one request equal to the
\* whole chunk, and an empty chunk gives no request.
C7_Split ==
  fDone =>
    /\ fOut = Segments(fChunk, fDelim)
    /\ (fDelim = NUL /\ fChunk # <<>> /\ \A i \in 1..Len(fChunk) : fChunk[i] # NUL)
         => fOut = <<fChunk>>
    /\ fChunk = <<>> => fOut = <<>>
    /\ (fDelim = "$" /\ fChunk = Foo \o <<"$">> \o Bar \o <<"$">> \o Baz)
         => fOut = <<Foo, Bar, Baz>>
    /\ (fDelim = "$" /\ fChunk = Foo \o <<"$">> \o Bar \o <<"$">>)
         => fOut = <<Foo, Bar>>
    /\ (fDelim = NUL /\ fChunk = Foo \o <<"$">> \o Bar)
         => fOut = <<Foo \o <<"$">> \o Bar>>

C7_Witness ==
  /\ fDone /\ fDelim = "$"
  /\ fChunk = Foo \o <<"$">> \o Bar \o <<"$">>
  /\ fOut = <<Foo, Bar>>

----------------------------------------------------------------------------
(* The per-connection socket engine SocketImp: EngineSpec *)

\* closeSocket(IsOk) with the loop over mClosedCallbacks stopping one early
closeSocketSkipLast(IsOk, platformOk) ==
  /\ mState' = "Closed"
  /\ eEvents' = Append(eEvents, IF platformOk THEN "Close" ELSE "CloseError")
  /\ eClosedCalls' = eClosedCalls \o
       [i \in 1..(mClosedCallbacks - 1) |-> [cb |-> i, flag |-> IsOk /\ platformOk]]

\* closeSocket(IsOk) with `IsOk = false` left out of the failure branch
closeSocketKeepFlag(IsOk, platformOk) ==
  /\ mState' = "Closed"
  /\ eEvents' = Append(eEvents, IF platformOk THEN "Close" ELSE "CloseError")
  /\ eClosedCalls' = eClosedCalls \o
       [i \in 1..mClosedCallbacks |-> [cb |-> i, flag |-> IsOk]]

\* SocketImp::closeSocket(IsOk): mState = Closed; the platform close succeeds
\* or fails and is reported; every closed listener is invoked, in order,
\* with IsOk, which a failed platform close has set to false
closeSocket(IsOk, platformOk) ==
  /\ mState' = "Closed"
  /\ eEvents' = Append(eEvents, IF platformOk THEN "Close" ELSE "CloseError")
  /\ eClosedCalls' = eClosedCalls \o
       [i \in 1..mClosedCallbacks |-> [cb |-> i, flag |-> IsOk /\ platformOk]]

\* send(Message) with `mState = State::OnClose` left out
sendKeepOpen(ok) ==
  /\ eEvents' = Append(eEvents, IF ok THEN "Send" ELSE "SendError")
  /\ UNCHANGED mState

\* SocketImp::send(Message): sendData succeeds or fails
send(ok) ==
  IF ok
    THEN eEvents' = Append(eEvents, "Send") /\ UNCHANGED mState
    ELSE eEvents' = Append(eEvents, "SendError") /\ mState' = "OnClose"

\* a SocketImp just constructed for an accepted connection
EngineInit ==
  /\ mState = "Open" /\ mReceiveCallbacks = 0 /\ mClosedCallbacks = 0
  /\ epc = "run" /\ eCallback = 0 /\ eSends = 0 /\ eReads = 0
  /\ eEvents = <<>> /\ eClosedCalls = <<>> /\ eReceiveCalls = <<>>
  /\ eEnd = "none" /\ eRet = -1
  /\ HandoffIdle /\ Delimiter = NUL /\ SplitIdle /\ ServerIdle /\ QueueIdle
  /\ HandleIdle

\* run(): bcl::createServer(this): the application registers its listeners
\* through receive() and closed()
createServer(nReceive, nClosed) ==
  /\ epc = "run"
  /\ mReceiveCallbacks' = nReceive
  /\ mClosedCallbacks' = nClosed
  /\ epc' = "receive"
  /\ UNCHANGED <<mState, eCallback, eSends, eReads, eEvents, eClosedCalls,
                 eReceiveCalls, eEnd, eRet, hvars, fvars, svars, qvars, ovars>>

\* run(): receiveData fails: ReceiveError is reported
ReceiveFail ==
  /\ epc = "receive"
  /\ eEvents' = Append(eEvents, "ReceiveError")
  /\ epc' = "failed"
  /\ UNCHANGED <<mState, mReceiveCallbacks, mClosedCallbacks, eCallback,
                 eSends, eReads, eClosedCalls, eReceiveCalls, eEnd, eRet,
                 hvars, fvars, svars, qvars, ovars>>

\* run(): closeSocket(false); return 1; after the failed read
CloseFailed(platformOk) ==
  /\ epc = "failed"
  /\ closeSocket(FALSE, platformOk)
  /\ eEnd' = "error"
  /\ epc' = "done" /\ eRet' = 1
  /\ UNCHANGED <<mReceiveCallbacks, mClosedCallbacks, eCallback, eSends,
                 eReads, eReceiveCalls, hvars, fvars, svars, qvars, ovars>>

\* run(): a zero-length read: closeSocket(true); return 0;
ReceiveZero(platformOk) ==
  /\ epc = "receive"
  /\ closeSocket(TRUE, platformOk)
  /\ eEnd' = "zero"
  /\ epc' = "done" /\ eRet' = 0
  /\ UNCHANGED <<mReceiveCallbacks, mClosedCallbacks, eCallback, eSends,
                 eReads, eReceiveCalls, hvars, fvars, svars, qvars, ovars>>

\* run(): a chunk is read: Receive is reported and the first receive
\* listener is invoked
ReceiveChunk ==
  /\ epc = "receive" /\ eReads < MaxReads
  /\ eReads' = eReads + 1
  /\ eEvents' = Append(eEvents, "Receive")
  /\ IF mReceiveCallbacks = 0
       THEN epc' = "check" /\ UNCHANGED <<eCallback, eSends, eReceiveCalls>>
       ELSE /\ epc' = "callback" /\ eCallback' = 1 /\ eSends' = 0
            /\ eReceiveCalls' = Append(eReceiveCalls, 1)
  /\ UNCHANGED <<mState, mReceiveCallbacks, mClosedCallbacks, eClosedCalls,
                 eEnd, eRet, hvars, fvars, svars, qvars, ovars>>

\* the running receive listener calls send(Message)
ListenerSend(ok) ==
  /\ epc = "callback" /\ eSends < MaxSends
  /\ send(ok)
  /\ eSends' = eSends + 1
  /\ UNCHANGED <<mReceiveCallbacks, mClosedCallbacks, epc, eCallback, eReads,
                 eClosedCalls, eReceiveCalls, eEnd, eRet, hvars, fvars, svars, qvars, ovars>>

\* the running receive listener returns: the next one is invoked, or the
\* loop over mReceiveCallbacks ends
ListenerReturn ==
  /\ epc = "callback"
  /\ IF eCallback < mReceiveCallbacks
       THEN /\ eCallback' = eCallback + 1 /\ eSends' = 0
            /\ eReceiveCalls' = Append(eReceiveCalls, eCallback + 1)
            /\ UNCHANGED epc
       ELSE epc' = "check" /\ UNCHANGED <<eCallback, eSends, eReceiveCalls>>
  /\ UNCHANGED <<mState, mReceiveCallbacks, mClosedCallbacks, eReads, eEvents,
                 eClosedCalls, eEnd, eRet, hvars, fvars, svars, qvars, ovars>>

\* CheckOnClose going on to read after closeSocket(false), `return 1` left out
CheckOnCloseGoOn(platformOk) ==
  /\ epc = "check"
  /\ IF mState = "OnClose"
       THEN /\ closeSocket(FALSE, platformOk)
            /\ eEnd' = "send"
            /\ epc' = "receive" /\ UNCHANGED eRet
       ELSE epc' = "receive" /\ UNCHANGED <<mState, eEvents, eClosedCalls, eEnd, eRet>>
  /\ UNCHANGED <<mReceiveCallbacks, mClosedCallbacks, eCallback, eSends,
                 eReads, eReceiveCalls, hvars, fvars, svars, qvars, ovars>>

\* run(): if (mState == State::OnClose) { closeSocket(false); return 1; }
CheckOnClose(platformOk) ==
  /\ epc = "check"
  /\ IF mState = "OnClose"
       THEN /\ closeSocket(FALSE, platformOk)
            /\ eEnd' = "send"
            /\ epc' = "done" /\ eRet' = 1
       ELSE epc' = "receive" /\ UNCHANGED <<mState, eEvents, eClosedCalls, eEnd, eRet>>
  /\ UNCHANGED <<mReceiveCallbacks, mClosedCallbacks, eCallback, eSends,
                 eReads, eReceiveCalls, hvars, fvars, svars, qvars, ovars>>

EngineNext ==
  \/ \E nReceive \in 0..MaxCallbacks, nClosed \in 0..MaxCallbacks :
       createServer(nReceive, nClosed)
  \/ ReceiveFail
  \/ \E platformOk \in BOOLEAN : CloseFailed(platformOk)
  \/ \E platformOk \in BOOLEAN : ReceiveZero(platformOk)
  \/ ReceiveChunk
  \/ \E ok \in BOOLEAN : ListenerSend(ok)
  \/ ListenerReturn
  \/ \E platformOk \in BOOLEAN : CheckOnClose(platformOk)

EngineSpec == EngineInit /\ [][EngineNext]_vars

ClosedCallsOf(i) == {k \in 1..Len(eClosedCalls) : eClosedCalls[k].cb = i}
CloseReports == {k \in 1..Len(eEvents) : eEvents[k] \in {"Close", "CloseError"}}

\* C8: however run() ends, every registered closed listener has been invoked
\* exactly once and the platform close with its Close or CloseError report
\* has happened exactly once; before run() ends neither has happened, and
\* never more than once.
C8_ClosedExactlyOnce ==
  /\ \A i \in 1..mClosedCallbacks : Cardinality(ClosedCallsOf(i)) <= 1
  /\ Cardinality(CloseReports) <= 1
  /\ epc = "done" =>
       /\ \A i \in 1..mClosedCallbacks : Cardinality(ClosedCallsOf(i)) = 1
       /\ Len(eClosedCalls) = mClosedCallbacks
       /\ Cardinality(CloseReports) = 1
       /\ eEvents[Len(eEvents)] \in {"Close", "CloseError"}
       /\ mState = "Closed"
       /\ eEnd \in {"zero", "error", "send"}
  /\ epc # "done" => eClosedCalls = <<>> /\ CloseReports = {}

C8_Witness ==
  /\ epc = "done" /\ eEnd = "send" /\ mClosedCallbacks = 2
  /\ Len(eClosedCalls) = 2 /\ eReads = 2

\* C9 as stated: the flag passed to the closed listeners is "clean" exactly
\* when the connection ended by a zero-length read.
C9_FlagAsStated ==
  epc = "done" =>
    \A k \in 1..Len(eClosedCalls) : eClosedCalls[k].flag = (eEnd = "zero")

\* C9 amended: the flag is "clean" exactly when the connection ended by a
\* zero-length read and the platform close succeeded (Close was reported);
\* after a read error, after a failed send, and whenever CloseError was
\* reported, it is "not clean".
C9_Flag ==
  epc = "done" =>
    \A k \in 1..Len(eClosedCalls) :
      eClosedCalls[k].flag = (eEnd = "zero" /\ eEvents[Len(eEvents)] = "Close")

C9_Witness ==
  /\ epc = "done" /\ eEnd = "zero" /\ eEvents[Len(eEvents)] = "CloseError"
  /\ mClosedCallbacks = 2 /\ Len(eClosedCalls) = 2
  /\ \A k \in 1..2 : ~eClosedCalls[k].flag

----------------------------------------------------------------------------
(* The listening loop bcl::net::startServer: ServerSpec *)

FDs == 1..NumFDs

\* ActiveSockets.max_size(): more than the platform has handles
TableMaxSize == NumFDs + 1

\* the values of the parameter PortNo: 0 asks the platform for a port
PortNumbers == {0, 1}

\* net::Connection(ServerAddress, ServerPort): the client address and the
\* client port keep their defaults
ServerConnection(ServerAddress, ServerPort) ==
  [mServerAddress |-> ServerAddress, mServerPort |-> ServerPort,
   mClientAddress |-> "", mClientPort |-> 0]

\* net::Connection(ServerAddress, ServerPort, ClientAddress, ClientPort)
FullConnection(ServerAddress, ServerPort, ClientAddress, ClientPort) ==
  [mServerAddress |-> ServerAddress, mServerPort |-> ServerPort,
   mClientAddress |-> ClientAddress, mClientPort |-> ClientPort]

\* isActive with the test of the client port left out
isActiveServerOnly(C) == C.mServerPort > 0

\* Connection::isActive
isActive(C) == C.mServerPort > 0 /\ C.mClientPort > 0

\* net::Connection PreConnection(Address, PortNo)
PreConnection == ServerConnection("Address", PortNo)

\* the port getsockname reports for the bound socket: the one asked for, or
\* the one the platform assigned when 0 was asked for
BoundPort == IF PortNo > 0 THEN PortNo ELSE 2

\* net::Connection Connection(inet_ntoa(ServerAddr.sin_addr),
\*                            ntohs(ServerAddr.sin_port))
Connection == ServerConnection("ServerAddr", BoundPort)

\* the port accept stored in ClientAddr: the clients are told apart by their
\* ports, the k-th accept call returning the client of port k
ClientPort == sAccepts

\* net::Connection NewConnection(<actual server address and port>,
\*                               <client address and port>)
NewConnection ==
  FullConnection("ActualServerAddr", BoundPort, "ClientAddr", ClientPort)

\* on(Status, C)
Report(log, status, C) == Append(log, [status |-> status, descriptor |-> C])

\* closeAndLog(SocketFD, C): the platform close succeeds or fails
closeAndLog(log, platformOk, C) ==
  Report(log, IF platformOk THEN "Close" ELSE "CloseError", C)

\* startServer is entered with its parameters
ServerInit ==
  /\ ConnectionMaxNumber \in 0..MaxConnections
  /\ sK = ConnectionMaxNumber
  /\ ActiveSockets = <<>> /\ ConnectionFD = 0
  /\ spc = "initialize" /\ workers = <<>> /\ openFDs = {} /\ sEvents = <<>>
  /\ sAccepts = 0 /\ sAssert = FALSE
  /\ PortNo \in PortNumbers
  /\ HandoffIdle /\ Delimiter = NUL /\ SplitIdle /\ EngineIdle /\ QueueIdle
  /\ HandleIdle

loopv == <<ConnectionMaxNumber, ActiveSockets, ConnectionFD, workers, openFDs,
           sAccepts, sK, sAssert, PortNo>>

\* SetupStep going on to the next step after it reported the failure
SetupStepGoOn(at, ok, error, C, hasSocket, platformOk, next) ==
  /\ spc = at
  /\ spc' = next
  /\ IF ok
       THEN UNCHANGED sEvents
       ELSE sEvents' = IF hasSocket
                         THEN closeAndLog(Report(sEvents, error, C), platformOk, C)
                         ELSE Report(sEvents, error, C)
  /\ UNCHANGED <<loopv, hvars, fvars, evars, qvars, ovars>>

\* one step of the setup: on failure the error is reported with descriptor C,
\* the listening socket is closed and logged when it exists, and
\* startServer returns
SetupStep(at, ok, error, C, hasSocket, platformOk, next) ==
  /\ spc = at
  /\ IF ok
       THEN spc' = next /\ UNCHANGED sEvents
       ELSE /\ spc' = "returned"
            /\ sEvents' = IF hasSocket
                            THEN closeAndLog(Report(sEvents, error, C), platformOk, C)
                            ELSE Report(sEvents, error, C)
  /\ UNCHANGED <<loopv, hvars, fvars, evars, qvars, ovars>>

\* if (!initialize())
Initialize(ok) ==
  SetupStep("initialize", ok, "InitializeError", PreConnection, FALSE, TRUE,
            "getAddressInfo")

\* if (!getAddressInfo(...))
GetAddressInfo(ok) ==
  SetupStep("getAddressInfo", ok, "HostnameError", PreConnection, FALSE,
            TRUE, "createSocket")

\* if (!SocketInfo.second)
CreateSocket(ok) ==
  SetupStep("createSocket", ok, "CreateError", PreConnection, FALSE, TRUE,
            "setSocketOptions")

\* if (!setSocketOptions(SocketFD))
SetSocketOptions(ok, platformOk) ==
  SetupStep("setSocketOptions", ok, "OptionError", PreConnection, TRUE,
            platformOk, "bindSocket")

\* if (!bindSocket(SocketFD, AddressInfo))
BindSocket(ok, platformOk) ==
  SetupStep("bindSocket", ok, "BindError", PreConnection, TRUE, platformOk,
            "getsockname")

\* if (getsockname(SocketFD, ...) != 0)
GetServerName(ok, platformOk) ==
  SetupStep("getsockname", ok, "ServerAddressError", PreConnection, TRUE,
            platformOk, "listen")

\* if (listen(SocketFD, 5)) ... on(Listen, Connection); the empty table and
\* the cap: 0 or more than max_size() means max_size()
Listen(ok, platformOk) ==
  /\ spc = "listen"
  /\ IF ok
       THEN /\ sEvents' = Report(sEvents, "Listen", Connection)
            /\ ConnectionMaxNumber' =
                 IF ConnectionMaxNumber = 0 \/ ConnectionMaxNumber > TableMaxSize
                   THEN TableMaxSize ELSE ConnectionMaxNumber
            /\ spc' = "loop"
       ELSE /\ sEvents' = closeAndLog(Report(sEvents, "ListenError", Connection),
                                      platformOk, Connection)
            /\ spc' = "returned"
            /\ UNCHANGED ConnectionMaxNumber
  /\ UNCHANGED <<ActiveSockets, ConnectionFD, workers, openFDs, sAccepts, sK,
                 sAssert, PortNo, hvars, fvars, evars, qvars, ovars>>

\* wait_for(seconds(0)) == future_status::ready on the entry of handle fd
Ready(fd) == ActiveSockets[fd] # 0 /\ workers[ActiveSockets[fd]].st = "ready"

\* sanitizeConnections() erasing the entries whose worker has closed its
\* socket, finished or not
sanitizeConnectionsClosed ==
  [fd \in {h \in DOMAIN ActiveSockets :
             ActiveSockets[h] = 0 \/ workers[ActiveSockets[h]].st = "open"} |->
     ActiveSockets[fd]]

\* sanitizeConnections(): the table without the entries whose worker is ready
sanitizeConnections ==
  [fd \in {h \in DOMAIN ActiveSockets : ~Ready(h)} |-> ActiveSockets[fd]]

Size(table) == Cardinality(DOMAIN table)

\* the head of the loop with the test of the full table left out
LoopHeadNoCap ==
  /\ spc = "loop"
  /\ IF Size(ActiveSockets) > ConnectionMaxNumber \div 2
       THEN ActiveSockets' = sanitizeConnections
       ELSE UNCHANGED ActiveSockets
  /\ spc' = "accept"
  /\ UNCHANGED <<ConnectionMaxNumber, ConnectionFD, workers, openFDs, sEvents,
                 sAccepts, sK, sAssert, PortNo, hvars, fvars, evars, qvars, ovars>>

\* the head of the loop: with a full table, sanitize and sleep until an
\* entry has been removed; with more than half of it, sanitize once
LoopHead ==
  /\ spc = "loop"
  /\ IF Size(ActiveSockets) = ConnectionMaxNumber
       THEN /\ ActiveSockets' = sanitizeConnections
            /\ spc' = IF Size(ActiveSockets') # Size(ActiveSockets)
                        THEN "accept" ELSE "loop"
       ELSE /\ IF Size(ActiveSockets) > ConnectionMaxNumber \div 2
                 THEN ActiveSockets' = sanitizeConnections
                 ELSE UNCHANGED ActiveSockets
            /\ spc' = "accept"
  /\ UNCHANGED <<ConnectionMaxNumber, ConnectionFD, workers, openFDs, sEvents,
                 sAccepts, sK, sAssert, PortNo, hvars, fvars, evars, qvars, ovars>>

\* AcceptFail leaving the loop instead of `continue`
AcceptFailFatal ==
  /\ spc = "accept" /\ sAccepts < MaxAccepts
  /\ sAccepts' = sAccepts + 1
  /\ sEvents' = Report(sEvents, "AcceptError", Connection)
  /\ spc' = "returned"
  /\ UNCHANGED <<ConnectionMaxNumber, ActiveSockets, ConnectionFD, workers,
                 openFDs, sK, sAssert, PortNo, hvars, fvars, evars, qvars, ovars>>

\* accept fails: on(AcceptError, Connection); continue;
AcceptFail ==
  /\ spc = "accept" /\ sAccepts < MaxAccepts
  /\ sAccepts' = sAccepts + 1
  /\ sEvents' = Report(sEvents, "AcceptError", Connection)
  /\ spc' = "loop"
  /\ UNCHANGED <<ConnectionMaxNumber, ActiveSockets, ConnectionFD, workers,
                 openFDs, sK, sAssert, PortNo, hvars, fvars, evars, qvars, ovars>>

\* accept returns a handle that is not open
Accept(fd) ==
  /\ spc = "accept" /\ sAccepts < MaxAccepts
  /\ fd \notin openFDs
  /\ sAccepts' = sAccepts + 1
  /\ ConnectionFD' = fd
  /\ openFDs' = openFDs \cup {fd}
  /\ spc' = "accepted"
  /\ UNCHANGED <<ConnectionMaxNumber, ActiveSockets, workers, sEvents, sK,
                 sAssert, PortNo, hvars, fvars, evars, qvars, ovars>>

\* getsockname(ConnectionFD) fails: on(ServerAddressError, Connection);
\* closeAndLog(ConnectionFD, Connection); continue;
ConnectionNameFail(platformOk) ==
  /\ spc = "accepted"
  /\ sEvents' = closeAndLog(Report(sEvents, "ServerAddressError", Connection),
                            platformOk, Connection)
  /\ openFDs' \in IF platformOk THEN {openFDs \ {ConnectionFD}}
                  ELSE {openFDs, openFDs \ {ConnectionFD}}
  /\ spc' = "loop"
  /\ UNCHANGED <<ConnectionMaxNumber, ActiveSockets, ConnectionFD, workers,
                 sAccepts, sK, sAssert, PortNo, hvars, fvars, evars, qvars, ovars>>

\* on(Accept, NewConnection); ActiveSockets.emplace(ConnectionFD, future());
\* the assertion; std::async(engine, ConnectionFD, NewConnection) starts the
\* worker, whose SocketImp keeps the descriptor as mConnection and passes it
\* to every report it makes. A build with assertions aborts when the
\* assertion is violated.
Launch ==
  /\ spc = "accepted"
  /\ sEvents' = Report(sEvents, "Accept", NewConnection)
  /\ LET had == ConnectionFD \in DOMAIN ActiveSockets
         violated == had /\ ~Ready(ConnectionFD)
     IN /\ ActiveSockets' =
             IF had THEN ActiveSockets
             ELSE [fd \in DOMAIN ActiveSockets \cup {ConnectionFD} |->
                     IF fd = ConnectionFD THEN 0 ELSE ActiveSockets[fd]]
        /\ sAssert' = (sAssert \/ violated)
        /\ \/ /\ workers' = Append(workers, [fd |-> ConnectionFD, st |-> "open",
                                          mConnection |-> NewConnection])
              /\ spc' = "assign"
           \/ /\ violated
              /\ spc' = "aborted"
              /\ UNCHANGED workers
  /\ UNCHANGED <<ConnectionMaxNumber, ConnectionFD, openFDs, sAccepts, sK,
                 PortNo, hvars, fvars, evars, qvars, ovars>>

\* EngineItr->second = <the new future>: releasing the future it replaces
\* waits for that worker to finish
Assign ==
  /\ spc = "assign"
  /\ ActiveSockets[ConnectionFD] = 0 \/ Ready(ConnectionFD)
  /\ ActiveSockets' = [ActiveSockets EXCEPT ![ConnectionFD] = Len(workers)]
  /\ spc' = "loop"
  /\ UNCHANGED <<ConnectionMaxNumber, ConnectionFD, workers, openFDs, sEvents,
                 sAccepts, sK, sAssert, PortNo, hvars, fvars, evars, qvars, ovars>>

\* a worker's engine closes its socket (SocketImp::closeSocket): from then on
\* the platform may hand the handle out again
WorkerClose(w, platformOk) ==
  /\ spc \notin {"aborted", "off"}
  /\ w \in 1..Len(workers)
  /\ workers[w].st = "open"
  /\ workers' = [workers EXCEPT ![w].st = "closed"]
  /\ openFDs' \in IF platformOk THEN {openFDs \ {workers[w].fd}}
                  ELSE {openFDs, openFDs \ {workers[w].fd}}
  /\ UNCHANGED <<ConnectionMaxNumber, ActiveSockets, ConnectionFD, spc,
                 sEvents, sAccepts, sK, sAssert, PortNo, hvars, fvars, evars, qvars, ovars>>

\* a worker returns from run(): its future becomes ready
WorkerFinish(w) ==
  /\ spc \notin {"aborted", "off"}
  /\ w \in 1..Len(workers)
  /\ workers[w].st = "closed"
  /\ workers' = [workers EXCEPT ![w].st = "ready"]
  /\ UNCHANGED <<ConnectionMaxNumber, ActiveSockets, ConnectionFD, spc,
                 openFDs, sEvents, sAccepts, sK, sAssert, PortNo, hvars, fvars, evars, qvars, ovars>>

ServerNext ==
  \/ \E ok \in BOOLEAN : Initialize(ok)
  \/ \E ok \in BOOLEAN : GetAddressInfo(ok)
  \/ \E ok \in BOOLEAN : CreateSocket(ok)
  \/ \E ok \in BOOLEAN, platformOk \in BOOLEAN : SetSocketOptions(ok, platformOk)
  \/ \E ok \in BOOLEAN, platformOk \in BOOLEAN : BindSocket(ok, platformOk)
  \/ \E ok \in BOOLEAN, platformOk \in BOOLEAN : GetServerName(ok, platformOk)
  \/ \E ok \in BOOLEAN, platformOk \in BOOLEAN : Listen(ok, platformOk)
  \/ LoopHead
  \/ AcceptFail
  \/ \E fd \in FDs : Accept(fd)
  \/ \E platformOk \in BOOLEAN : ConnectionNameFail(platformOk)
  \/ Launch
  \/ Assign
  \/ \E w \in 1..MaxAccepts, platformOk \in BOOLEAN : WorkerClose(w, platformOk)
  \/ \E w \in 1..MaxAccepts : WorkerFinish(w)

ServerSpec == ServerInit /\ [][ServerNext]_vars

\* the runs in which the progress of the listening loop is checked: the
\* setup succeeds, and so do accept and the query of the local address of
\* the accepted connection, whose failures leave the table as it is
ServerProgressNext ==
  \/ Initialize(TRUE) \/ GetAddressInfo(TRUE) \/ CreateSocket(TRUE)
  \/ SetSocketOptions(TRUE, TRUE) \/ BindSocket(TRUE, TRUE)
  \/ GetServerName(TRUE, TRUE) \/ Listen(TRUE, TRUE)
  \/ LoopHead
  \/ \E fd \in FDs : Accept(fd)
  \/ Launch
  \/ Assign
  \/ \E w \in 1..MaxAccepts, platformOk \in BOOLEAN : WorkerClose(w, platformOk)
  \/ \E w \in 1..MaxAccepts : WorkerFinish(w)

\* the thread of startServer keeps running: the sleep of five seconds ends
\* and the loop sanitizes again. When a client connects and when a worker
\* closes or finishes is left open.
FairServerSpec ==
  ServerInit /\ [][ServerProgressNext]_vars /\ WF_vars(LoopHead)

LiveWorkers == {w \in 1..Len(workers) : workers[w].st # "ready"}

\* C10: with maxConnections = K > 0 the active-connection table never holds
\* more than K entries, accept is called (and a connection accepted and
\* given a worker) only while it holds fewer than K entries, and never more
\* than K workers are running: the (K+1)-th connection gets its worker only
\* after a worker has finished and its entry has been removed.
C10_ConnectionCap ==
  (sK > 0 /\ spc \in {"loop", "accept", "accepted", "assign", "aborted"}) =>
    /\ ConnectionMaxNumber = sK
    /\ Size(ActiveSockets) <= sK
    /\ spc = "accept" => Size(ActiveSockets) < sK
    /\ spc = "accepted" => Size(ActiveSockets) < sK
    /\ Cardinality(LiveWorkers) <= sK

C10_Witness ==
  /\ sK = 2 /\ spc = "loop" /\ Size(ActiveSockets) = 2
  /\ Cardinality(LiveWorkers) = 2 /\ Len(workers) = 3
  /\ ~sAssert

\* the statuses of a log of reports, and the setup failures
Statuses(log) == [k \in 1..Len(log) |-> log[k].status]
SocketlessErrors == {"InitializeError", "HostnameError", "CreateError"}
SocketErrors == {"OptionError", "BindError", "ServerAddressError", "ListenError"}
SetupErrors == SocketlessErrors \cup SocketErrors
CloseStatuses == {"Close", "CloseError"}
LoopPositions == {"loop", "accept", "accepted", "assign", "aborted"}

\* the error a failure of each setup step is reported with
ErrorOf(at) ==
  CASE at = "initialize" -> "InitializeError"
    [] at = "getAddressInfo" -> "HostnameError"
    [] at = "createSocket" -> "CreateError"
    [] at = "setSocketOptions" -> "OptionError"
    [] at = "bindSocket" -> "BindError"
    [] at = "getsockname" -> "ServerAddressError"
    [] at = "listen" -> "ListenError"
    [] OTHER -> "UnknownError"

\* C11 as stated: a setup failure invokes the status callback exactly once,
\* with the error, and startServer returns without Listen and without
\* accepting.
C11_OneCallbackAsStated ==
  spc = "returned" =>
    /\ Len(sEvents) = 1 /\ sEvents[1].status \in SetupErrors
    /\ sAccepts = 0 /\ workers = <<>>

\* C11 amended: a setup failure is reported exactly once, with the error
\* of the failing step, as the first invocation of the status callback; when
\* the listening socket exists by then (option, bind, local address query,
\* listen) its close is reported next, as Close or CloseError, and otherwise
\* nothing else is; startServer returns without reporting Listen, without
\* accepting a connection and without starting a worker; and startServer
\* returns only so.
C11_SetupFailure ==
  /\ [](/\ spc = "returned" =>
             /\ sEvents # <<>> /\ sEvents[1].status \in SetupErrors
             /\ sEvents[1].status \in SocketlessErrors => Len(sEvents) = 1
             /\ sEvents[1].status \in SocketErrors =>
                  /\ Len(sEvents) = 2
                  /\ sEvents[2].status \in CloseStatuses
                  /\ sEvents[2].descriptor = sEvents[1].descriptor
             /\ sAccepts = 0 /\ workers = <<>> /\ ActiveSockets = <<>>
        /\ (sEvents # <<>> /\ sEvents[1].status \in SetupErrors) =>
             spc = "returned")
  /\ [][(spc # "returned" /\ spc' = "returned") =>
          /\ sEvents = <<>>
          /\ sEvents'[1].status = ErrorOf(spc)]_vars

C11_Witness ==
  /\ spc = "returned"
  /\ Statuses(sEvents) = <<"BindError", "CloseError">>

\* a step of the listening loop that reports a per-connection failure
PerConnectionFailure ==
  /\ spc \in {"accept", "accepted"}
  /\ Len(sEvents') > Len(sEvents)
  /\ sEvents'[Len(sEvents) + 1].status \in {"AcceptError", "ServerAddressError"}

\* C12: a failed accept and a failed local-address query on an accepted
\* connection take the loop back to its head with the active-connection
\* table and the workers unchanged; the failed query is followed by the
\* close of that connection, reported as Close or CloseError; and once Listen
\* has been reported startServer never returns.
C12_LoopSurvivesFailures ==
  /\ [][PerConnectionFailure =>
          /\ spc' = "loop"
          /\ ActiveSockets' = ActiveSockets /\ workers' = workers
          /\ spc = "accept" =>
               Statuses(sEvents') = Append(Statuses(sEvents), "AcceptError")
          /\ spc = "accepted" =>
               /\ Len(sEvents') = Len(sEvents) + 2
               /\ sEvents'[Len(sEvents')].status \in CloseStatuses]_vars
  /\ []((\E k \in 1..Len(sEvents) : sEvents[k].status = "Listen") =>
          spc \in LoopPositions)

C12_Witness ==
  /\ Len(sEvents) >= 5
  /\ Statuses(SubSeq(sEvents, 1, 5)) =
       <<"Listen", "AcceptError", "ServerAddressError", "CloseError", "Accept">>
  /\ Len(workers) = 1 /\ Size(ActiveSockets) = 1 /\ spc = "loop"

\* the descriptor holds only the server fields / holds server and client
ServerOnly(C) ==
  C.mClientAddress = "" /\ C.mClientPort = 0 /\ C.mServerAddress # ""
Full(C) == C.mClientAddress # "" /\ C.mServerAddress # ""

\* the k-th report was made after Listen, in the listening loop
InLoop(k) == \E j \in 1..(k - 1) : sEvents[j].status = "Listen"

\* C13 as stated: the setup errors, Listen and AcceptError carry a
\* descriptor holding only the server fields, not active; every report made
\* once accept has returned a client carries the full descriptor.
C13_PairingAsStated ==
  \A k \in 1..Len(sEvents) :
    IF InLoop(k) /\ sEvents[k].status # "AcceptError"
      THEN Full(sEvents[k].descriptor)
      ELSE ServerOnly(sEvents[k].descriptor) /\ ~isActive(sEvents[k].descriptor)

\* C13 amended: every report other than Accept that startServer makes (the
\* setup errors and the close of the listening socket, Listen, AcceptError,
\* and the ServerAddressError and the close of an accepted connection whose
\* local address could not be queried) carries a descriptor holding only
\* the server fields, whose isActive() is false, the client port being 0;
\* Accept carries the full descriptor, which is the one the connection's
\* engine passes to all its later reports; and isActive() is true exactly
\* when both ports are positive.
C13_Pairing ==
  /\ \A k \in 1..Len(sEvents) :
       LET C == sEvents[k].descriptor
       IN /\ isActive(C) <=> (C.mServerPort > 0 /\ C.mClientPort > 0)
          /\ IF sEvents[k].status = "Accept"
               THEN Full(C) /\ C.mClientPort > 0 /\ isActive(C)
               ELSE ServerOnly(C) /\ ~isActive(C)
          /\ sEvents[k].status \in SetupErrors \ {"ListenError"} /\ ~InLoop(k)
               => C = PreConnection
  /\ \A w \in 1..Len(workers) :
       /\ Full(workers[w].mConnection) /\ isActive(workers[w].mConnection)
       /\ \E k \in 1..Len(sEvents) :
            /\ sEvents[k].status = "Accept"
            /\ sEvents[k].descriptor = workers[w].mConnection
            /\ Cardinality({j \in 1..k : sEvents[j].status = "Accept"}) = w

C13_Witness ==
  /\ PortNo = 0 /\ Len(workers) = 1
  /\ \E k \in 1..Len(sEvents) :
       sEvents[k].status = "ServerAddressError" /\ InLoop(k)
  /\ \E k \in 1..Len(sEvents) : sEvents[k].status = "AcceptError"

\* the positions of a status in the reports of the engine
EventsOf(status) == {k \in 1..Len(eEvents) : eEvents[k] = status}

\* C14: a send() call reports SendError and flags the engine closing, or
\* reports Send and leaves the state as it is (open stays open), never
\* both; once SendError has been reported the engine is closing or closed,
\* nothing is read any more (no Receive, no ReceiveError, no zero-length
\* read follows), and run() ends after the listeners of the current chunk
\* by closing the socket with the not-clean flag and returning 1.
C14_SendFailureCloses ==
  /\ [][(eSends' = eSends + 1) =>
          /\ Len(eEvents') = Len(eEvents) + 1
          /\ \/ /\ eEvents'[Len(eEvents')] = "SendError"
                /\ mState' = "OnClose"
             \/ /\ eEvents'[Len(eEvents')] = "Send"
                /\ mState' = mState]_vars
  /\ [](EventsOf("SendError") # {} =>
          /\ mState \in {"OnClose", "Closed"}
          /\ epc \in {"callback", "check", "done"}
          /\ \A k \in EventsOf("SendError") :
               \A j \in (k + 1)..Len(eEvents) :
                 eEvents[j] \in {"Send", "SendError", "Close", "CloseError"}
          /\ epc = "done" =>
               /\ eEnd = "send" /\ eRet = 1
               /\ Len(eClosedCalls) = mClosedCallbacks
               /\ \A k \in 1..Len(eClosedCalls) : ~eClosedCalls[k].flag)
  /\ []((EventsOf("SendError") = {} /\ epc # "done") => mState = "Open")

C14_Witness ==
  /\ epc = "done" /\ eEnd = "send" /\ eReads = 1
  /\ eEvents \in {<<"Receive", "SendError", "Send", "Close">>}
  /\ Len(eClosedCalls) = 2

\* C15: once the closed listener has been invoked with no rejection
\* recorded, it eventually returns, and a worker blocked in answer() at that
\* moment is eventually woken and its answer() returns false.
C15_CloseWakesWorker ==
  /\ (npc = "close") ~> (npc = "closed")
  /\ (npc = "close" /\ wpc = "answer") ~> (wpc = "run" /\ ansRet = "false")

----------------------------------------------------------------------------
(* TransparentQueue<Ty>: QueueSpec *)

\* the addresses of the objects pushed
Pointers == {1, 2, 3}

\* std::lexicographical_compare, as operator< of std::queue applies it
RECURSIVE lexicographical_compare(_, _)
lexicographical_compare(s, t) ==
  IF t = <<>> THEN FALSE
  ELSE IF s = <<>> THEN TRUE
  ELSE IF Head(s) < Head(t) THEN TRUE
  ELSE IF Head(t) < Head(s) THEN FALSE
  ELSE lexicographical_compare(Tail(s), Tail(t))

\* TransparentQueue::size
size(Q) == IF Q.mIsSingle THEN (IF Q.mIsEmpty THEN 0 ELSE 1) ELSE Len(Q.mQueue)

\* TransparentQueue::empty
empty(Q) == IF Q.mIsSingle THEN Q.mIsEmpty ELSE Q.mQueue = <<>>

\* push(V) leaving out `mQueue->push(Current)` when it allocates the queue
pushLoseCurrent(Q, V) ==
  IF Q.mIsSingle
    THEN IF Q.mIsEmpty
           THEN [Q EXCEPT !.mIsEmpty = FALSE, !.mValue = V]
           ELSE [Q EXCEPT !.mIsSingle = FALSE, !.mValue = nullptr,
                          !.mQueue = <<V>>]
    ELSE [Q EXCEPT !.mQueue = Append(@, V)]

\* TransparentQueue::push(V): the object afterwards
push(Q, V) ==
  IF Q.mIsSingle
    THEN IF Q.mIsEmpty
           THEN [Q EXCEPT !.mIsEmpty = FALSE, !.mValue = V]
           ELSE [Q EXCEPT !.mIsSingle = FALSE, !.mValue = nullptr,
                          !.mQueue = <<Q.mValue, V>>]
    ELSE [Q EXCEPT !.mQueue = Append(@, V)]

\* TransparentQueue::pop(): the object afterwards
pop(Q) ==
  IF Q.mIsSingle
    THEN [Q EXCEPT !.mValue = nullptr, !.mIsEmpty = TRUE]
    ELSE IF Q.mQueue = <<>> THEN Q ELSE [Q EXCEPT !.mQueue = Tail(@)]

\* TransparentQueue::pop(): the value returned
popValue(Q) ==
  IF Q.mIsSingle THEN Q.mValue
  ELSE IF Q.mQueue = <<>> THEN nullptr ELSE Head(Q.mQueue)

\* TransparentQueue::front and TransparentQueue::back; on an allocated queue
\* that is empty std::queue::front and back are undefined and never taken
front(Q) == IF Q.mIsSingle THEN Q.mValue ELSE Head(Q.mQueue)
back(Q) == IF Q.mIsSingle THEN Q.mValue ELSE Q.mQueue[Len(Q.mQueue)]

\* TransparentQueue::emplace(V): the object afterwards
emplace(Q, V) ==
  IF Q.mIsSingle
    THEN [Q EXCEPT !.mIsSingle = FALSE, !.mValue = nullptr,
                   !.mQueue = <<Q.mValue, V>>]
    ELSE [Q EXCEPT !.mQueue = Append(@, V)]

\* TransparentQueue::operator==
Equal(Q, R) ==
  IF size(Q) # size(R) THEN FALSE
  ELSE IF Q.mIsSingle
    THEN IF R.mIsSingle
           THEN IF Q.mIsEmpty = R.mIsEmpty
                  THEN (IF Q.mIsEmpty THEN TRUE ELSE Q.mValue = R.mValue)
                  ELSE FALSE
           ELSE IF Q.mIsEmpty = (R.mQueue = <<>>)
                  THEN (IF Q.mIsEmpty THEN TRUE ELSE Q.mValue = Head(R.mQueue))
                  ELSE FALSE
    ELSE IF R.mIsSingle
           THEN IF R.mIsEmpty = (Q.mQueue = <<>>)
                  THEN (IF R.mIsEmpty THEN TRUE ELSE R.mValue = Head(Q.mQueue))
                  ELSE FALSE
           ELSE Q.mQueue = R.mQueue

\* operator< comparing two allocated queues by their lengths only
LessByLength(Q, R) ==
  IF Q.mIsSingle = R.mIsSingle
    THEN IF Q.mIsSingle
           THEN IF Q.mIsEmpty = R.mIsEmpty
                  THEN (IF Q.mIsEmpty THEN FALSE ELSE Q.mValue < R.mValue)
                  ELSE Q.mIsEmpty
           ELSE Len(Q.mQueue) < Len(R.mQueue)
    ELSE IF Q.mIsSingle
           THEN lexicographical_compare(
                  IF Q.mIsEmpty THEN <<>> ELSE <<Q.mValue>>, R.mQueue)
           ELSE lexicographical_compare(
                  Q.mQueue, IF R.mIsEmpty THEN <<>> ELSE <<R.mValue>>)

\* TransparentQueue::operator<
Less(Q, R) ==
  IF Q.mIsSingle = R.mIsSingle
    THEN IF Q.mIsSingle
           THEN IF Q.mIsEmpty = R.mIsEmpty
                  THEN (IF Q.mIsEmpty THEN FALSE ELSE Q.mValue < R.mValue)
                  ELSE Q.mIsEmpty
           ELSE lexicographical_compare(Q.mQueue, R.mQueue)
    ELSE IF Q.mIsSingle
           THEN lexicographical_compare(
                  IF Q.mIsEmpty THEN <<>> ELSE <<Q.mValue>>, R.mQueue)
           ELSE lexicographical_compare(
                  Q.mQueue, IF R.mIsEmpty THEN <<>> ELSE <<R.mValue>>)

QueueInit ==
  /\ QueueIdle
  /\ HandoffIdle /\ Delimiter = NUL /\ SplitIdle /\ EngineIdle /\ ServerIdle
  /\ HandleIdle

NoResult == [done |-> FALSE, eq |-> FALSE, lt |-> FALSE]

\* Q.push(V) on the object i
Push(i, V) ==
  /\ Len(tqElems[i]) < MaxQueueLen
  /\ TQ' = [TQ EXCEPT ![i] = push(@, V)]
  /\ tqElems' = [tqElems EXCEPT ![i] = Append(@, V)]
  /\ tqResult' = NoResult
  /\ tqCall' = [op |-> "push", i |-> i, V |-> V, ret |-> nullptr,
                before |-> tqElems[i]]
  /\ UNCHANGED <<hvars, fvars, evars, svars, ovars>>

\* Q.pop() on the object i
Pop(i) ==
  /\ TQ' = [TQ EXCEPT ![i] = pop(@)]
  /\ tqElems' = [tqElems EXCEPT ![i] = IF @ = <<>> THEN @ ELSE Tail(@)]
  /\ tqResult' = NoResult
  /\ tqCall' = [op |-> "pop", i |-> i, V |-> nullptr, ret |-> popValue(TQ[i]),
                before |-> tqElems[i]]
  /\ UNCHANGED <<hvars, fvars, evars, svars, ovars>>

\* test_eq_lt: EQ = (Q1 == Q2); LT = (Q1 < Q2)
Compare ==
  /\ ~tqResult.done
  /\ tqResult' = [done |-> TRUE, eq |-> Equal(TQ[1], TQ[2]),
                  lt |-> Less(TQ[1], TQ[2])]
  /\ UNCHANGED <<TQ, tqElems, tqCall, hvars, fvars, evars, svars, ovars>>

QueueNext ==
  \/ \E i \in {1, 2}, V \in Pointers : Push(i, V)
  \/ \E i \in {1, 2} : Pop(i)
  \/ Compare

QueueSpec == QueueInit /\ [][QueueNext]_vars

\* Q.emplace(V) on the object i
Emplace(i, V) ==
  /\ Len(tqElems[i]) < MaxQueueLen
  /\ TQ' = [TQ EXCEPT ![i] = emplace(@, V)]
  /\ tqElems' = [tqElems EXCEPT ![i] = Append(@, V)]
  /\ tqResult' = NoResult
  /\ tqCall' = [op |-> "emplace", i |-> i, V |-> V, ret |-> nullptr,
                before |-> tqElems[i]]
  /\ UNCHANGED <<hvars, fvars, evars, svars, ovars>>

\* the object Q1 used through push, pop and emplace
EmplaceNext ==
  \/ \E V \in Pointers : Push(1, V)
  \/ Pop(1)
  \/ \E V \in Pointers : Emplace(1, V)

EmplaceSpec == QueueInit /\ [][EmplaceNext]_vars

\* s is lexicographically less than t: s is a proper prefix of t, or at the
\* first position where they differ the element of s is the smaller one
LexLess(s, t) ==
  \/ Len(s) < Len(t) /\ s = SubSeq(t, 1, Len(s))
  \/ \E k \in 1..Len(s) :
       /\ k <= Len(t)
       /\ SubSeq(s, 1, k - 1) = SubSeq(t, 1, k - 1)
       /\ s[k] < t[k]

\* C16: Q1 == Q2 exactly when the element sequences are equal, and Q1 < Q2
\* exactly when the element sequence of Q1 is lexicographically less than
\* that of Q2, whatever the representation of either queue.
C16_CompareLikeSequences ==
  tqResult.done =>
    /\ tqResult.eq <=> (tqElems[1] = tqElems[2])
    /\ tqResult.lt <=> LexLess(tqElems[1], tqElems[2])

\* Q1 allocated and holding two elements, Q2 in the single-pointer
\* representation holding the second of them (the test tq_lt_two_one)
C16_Witness ==
  /\ tqResult.done /\ ~tqResult.eq /\ tqResult.lt
  /\ ~TQ[1].mIsSingle /\ tqElems[1] = <<1, 2>>
  /\ TQ[2].mIsSingle /\ tqElems[2] = <<2>>

----------------------------------------------------------------------------
(* Progress of the hand-off, checked under FairSpec *)

\* the sends that answer the k-th published request
SendsFor(k) == {j \in 1..Len(sent) : sent[j].req = k}

\* a thread is blocked in a wait whose predicate is false
NetBlocked ==
  \/ npc = "wait" /\ ~(mIsSend \/ mReject)
  \/ npc = "waitReject" /\ ~mReject
WorkerBlocked == wpc = "answer" /\ ~(mIsReceive \/ mClose)

\* a published request has got no send yet (there is at most one such)
Unanswered == \E k \in 1..Len(published) : SendsFor(k) = {}

\* C17: every published request is eventually followed by a Socket::send
\* for it, and never by more than one; the message is the handler's response
\* to it or REJECT, followed by the delimiter; the two threads are never
\* both blocked in their waits, the network thread never waits for a worker
\* that is gone, and it never stays blocked.
C17_PublishedGetsOneSend ==
  /\ Unanswered ~> ~Unanswered
  /\ NetBlocked ~> ~NetBlocked
  /\ [](/\ \A k \in 1..Len(published) :
             /\ Cardinality(SendsFor(k)) <= 1
             /\ \A j \in SendsFor(k) :
                  sent[j].msg \in {Append(Handler(published[k]), Delimiter),
                                   Append(RejectCode, Delimiter)}
        /\ \A j \in 1..Len(sent) : sent[j].req <= Len(published)
        /\ \A k \in 1..(Len(published) - 1) : SendsFor(k) # {}
        /\ ~(NetBlocked /\ WorkerBlocked)
        /\ NetBlocked => wpc \notin {"done", "crashed"})

C17_Witness ==
  /\ Len(published) = 2 /\ Len(sent) = 2 /\ wpc = "done"
  /\ sent[1] = [msg |-> Append(Handler(published[1]), Delimiter), req |-> 1]
  /\ sent[2] = [msg |-> Append(RejectCode, Delimiter), req |-> 2]

----------------------------------------------------------------------------
(* More claims about the hand-off, checked under Spec *)

\* the requests of the current chunk published so far
PublishedOfChunk == Len(published) - chunk.pub

\* C18: in the chunk during which the listener records the rejection, the
\* request in flight gets one message, after which the status block is
\* deleted and the listener leaves the loop: every request of the chunk that
\* was published has exactly one message, the requests still queued stay in
\* the queue, and none of them is published.
C18_StopAtRejection ==
  (Reject /\ ~chunk.rejected) =>
    /\ npc \in {"taken", "send", "delete", "idle", "deleteReject", "closed",
                "crashed"}
    /\ PublishedOfChunk >= 1
    /\ Buffer = SubSeq(chunk.reqs, PublishedOfChunk + 1, Len(chunk.reqs))
    /\ npc \in {"taken", "send"} =>
         Len(chunk.sent) = PublishedOfChunk - 1 /\ csDeletes = 0
    /\ npc = "delete" => Len(chunk.sent) = PublishedOfChunk /\ csDeletes = 0
    /\ npc \notin {"taken", "send", "delete"} =>
         /\ Len(chunk.sent) = PublishedOfChunk
         /\ csDeletes = 1
         /\ sent[Len(sent)].req = Len(published)
         /\ sent[Len(sent)].msg = chunk.sent[Len(chunk.sent)]

C18_Witness ==
  /\ Reject /\ ~chunk.rejected /\ npc = "idle"
  /\ Len(chunk.reqs) = 2 /\ Len(Buffer) = 1 /\ PublishedOfChunk = 1
  /\ chunk.sent = <<Append(RejectCode, Delimiter)>> /\ csDeletes = 1

\* the responses answer() has published so far
ResponsesPublished == Len(handled) - (IF wpc = "respond" THEN 1 ELSE 0)

\* C19: the message sent for a published request is the handler's response
\* followed by the delimiter whenever answer() published a response for it,
\* the reject flag being set or not when the listener took it, and it is
\* REJECT followed by the delimiter only when no response was published
\* for it; a listener that woke with the reject flag set holds the response
\* if there was one.
C19_ResponseBeatsReject ==
  /\ \A j \in 1..Len(sent) :
       sent[j].req >= 1 =>
         sent[j].msg = IF sent[j].req <= ResponsesPublished
                         THEN Append(Handler(published[sent[j].req]), Delimiter)
                         ELSE Append(RejectCode, Delimiter)
  /\ (npc \in {"taken", "send"} /\ Len(published) <= ResponsesPublished) =>
       nData = Handler(published[Len(published)])
  /\ (npc \in {"taken", "send"} /\ nData = RejectCode) =>
       Reject /\ Len(published) > ResponsesPublished

C19_Witness ==
  /\ npc = "send" /\ Reject /\ wpc = "done"
  /\ Len(published) = 2 /\ nData = Handler(published[2])

\* C20: once answer() has returned false the handle is detached: the reject
\* flag is set, the worker holds no lock and is in no wait, in no handler
\* invocation and in no step of the destructor that sets the reject flag
\* or notifies; answer() keeps returning false.
C20_DetachedAfterFalse ==
  /\ ansRet = "false" => mStatus = "null"
  /\ mStatus = "null" =>
       /\ mReject
       /\ wpc \in {"run", "done"}
       /\ ansRet = "false" /\ ansCalls = 0
       /\ mSendMutex # "worker" /\ mReceiveMutex # "worker"

C20_Witness ==
  /\ mStatus = "null" /\ wpc = "done" /\ ansRet = "false"
  /\ Len(handled) >= 1 /\ npc = "closed"

----------------------------------------------------------------------------
(* The order of the status events of one connection, checked under EngineSpec *)

\* the status events of the connection of the engine: startServer reports
\* Accept with the descriptor before std::async starts the worker that
\* constructs the SocketImp and calls run(); the engine reports the others
ConnectionEvents == <<"Accept">> \o eEvents

\* the statuses the engine reports while the connection is in use
TrafficStatuses == {"Receive", "Send", "SendError", "ReceiveError"}

\* C21: the status events of a connection are Accept, then Receive, Send,
\* SendError and at most one ReceiveError in any number, then at most one
\* Close or CloseError, which is the last one: it is there exactly when run()
\* has returned, a ReceiveError is followed by it at once, and no step after
\* it reports a status or invokes a receive listener.
C21_EventOrder ==
  /\ [](LET E == ConnectionEvents
        IN /\ E[1] = "Accept"
           /\ \A k \in 2..Len(E) :
                /\ E[k] \in TrafficStatuses \cup CloseStatuses
                /\ E[k] \in CloseStatuses => k = Len(E)
                /\ (E[k] = "ReceiveError" /\ k < Len(E)) => E[k + 1] \in CloseStatuses
           /\ Cardinality(EventsOf("ReceiveError")) <= 1
           /\ Cardinality(CloseReports) <= 1
           /\ (epc = "done") <=> (CloseReports # {})
           /\ epc = "done" => E[Len(E)] \in CloseStatuses)
  /\ [][CloseReports # {} =>
          eEvents' = eEvents /\ eReceiveCalls' = eReceiveCalls]_vars
  /\ [][ReceiveFail => (CloseReports = {} /\ EventsOf("ReceiveError") = {})]_vars

C21_Witness ==
  /\ epc = "done" /\ mReceiveCallbacks = 2
  /\ ConnectionEvents =
       <<"Accept", "Receive", "SendError", "Send", "CloseError">>
  /\ eReceiveCalls = <<1, 2>>

----------------------------------------------------------------------------
(* More claims about the listening loop, checked under ServerSpec *)

\* C22: whenever the loop registers a worker for an accepted handle, the
\* table holds no entry under that handle whose worker is still running: the
\* assertion before the launch is never violated, handle reuse included.
C22_AssertionHolds ==
  /\ ~sAssert
  /\ spc # "aborted"
  /\ spc = "assign" =>
       (ActiveSockets[ConnectionFD] = 0 \/ Ready(ConnectionFD))

\* the table is full at the head of the loop
TableFull == spc = "loop" /\ Size(ActiveSockets) = ConnectionMaxNumber

\* the entries of the table whose worker has finished
ReadyEntries == {fd \in DOMAIN ActiveSockets : Ready(fd)}

\* C23: with the table full and an entry whose worker has finished, the loop
\* eventually proceeds to accept, and the step that takes it there removes
\* every finished entry; with the table full and no finished entry the loop
\* stays at its head and the table as it is; no step removes an entry whose
\* worker has not finished.
C23_FullTableProgress ==
  /\ (TableFull /\ ReadyEntries # {}) ~> (spc = "accept")
  /\ [][(TableFull /\ spc' # spc) =>
          /\ spc' = "accept"
          /\ ReadyEntries # {}
          /\ DOMAIN ActiveSockets' = DOMAIN ActiveSockets \ ReadyEntries
          /\ \A fd \in DOMAIN ActiveSockets' :
               ActiveSockets'[fd] = ActiveSockets[fd]]_vars
  /\ [][(TableFull /\ ReadyEntries = {}) =>
          (spc' = "loop" /\ ActiveSockets' = ActiveSockets)]_vars
  /\ [][\A fd \in DOMAIN ActiveSockets \ DOMAIN ActiveSockets' : Ready(fd)]_vars

C23_Witness ==
  /\ sK = 2 /\ spc = "accept" /\ Size(ActiveSockets) = 1 /\ Len(workers) = 2
  /\ \E w \in 1..2 : workers[w].st = "ready" /\ workers[w].fd \notin DOMAIN ActiveSockets
  /\ \E fd \in DOMAIN ActiveSockets : ~Ready(fd)
  /\ ~sAssert

----------------------------------------------------------------------------
(* The locking discipline of the hand-off, checked under Spec *)

\* the positions at which each thread is inside a scope of
\* std::unique_lock on mReceiveMutex, respectively mSendMutex
NetReceiveScope == {"published", "closeSet"}
NetSendScope == {"taken", "acked"}
WorkerReceiveScope == {"woken"}
WorkerSendScope == {"rejectSet", "responded", "dtorSet"}

\* C24: a thread holds a lock exactly inside the matching scope, so never
\* two locks at once; the receive-side flags and data change only in a step
\* of a thread that holds mReceiveMutex after it, the send-side ones only
\* in a step of a thread that holds mSendMutex after it, and a lock is taken
\* only when it is free; the waits are entered with no lock held and end
\* holding the lock of their own side only; the handler and Socket::send
\* are invoked by a thread that holds neither lock.
C24_LockDiscipline ==
  /\ [](/\ mReceiveMutex = "net" <=> npc \in NetReceiveScope
        /\ mSendMutex = "net" <=> npc \in NetSendScope
        /\ mReceiveMutex = "worker" <=> wpc \in WorkerReceiveScope
        /\ mSendMutex = "worker" <=> wpc \in WorkerSendScope
        /\ npc \in {"wait", "waitReject", "send", "rejected"} =>
             (mReceiveMutex # "net" /\ mSendMutex # "net")
        /\ wpc \in {"answer", "handler"} =>
             (mReceiveMutex # "worker" /\ mSendMutex # "worker"))
  /\ [][rside' # rside =>
          /\ mReceiveMutex = "free" /\ mReceiveMutex' # "free"
          /\ mReceiveMutex' = "net" <=> npc' # npc
          /\ mReceiveMutex' = "worker" <=> wpc' # wpc]_vars
  /\ [][sside' # sside =>
          /\ mSendMutex = "free" /\ mSendMutex' # "free"
          /\ mSendMutex' = "net" <=> npc' # npc
          /\ mSendMutex' = "worker" <=> wpc' # wpc]_vars
  /\ [][(mReceiveMutex' # mReceiveMutex /\ mReceiveMutex # "free") =>
          mReceiveMutex' = "free"]_vars
  /\ [][(mSendMutex' # mSendMutex /\ mSendMutex # "free") =>
          mSendMutex' = "free"]_vars
  /\ [][handled' # handled =>
          (mReceiveMutex # "worker" /\ mSendMutex # "worker"
           /\ mReceiveMutex' # "worker" /\ mSendMutex' # "worker")]_vars
  /\ [][sent' # sent =>
          (mReceiveMutex # "net" /\ mSendMutex # "net"
           /\ mReceiveMutex' # "net" /\ mSendMutex' # "net")]_vars

\* the closed listener holds mReceiveMutex while the destructor holds
\* mSendMutex
C24_Witness ==
  /\ mReceiveMutex = "net" /\ mSendMutex = "worker"
  /\ npc = "closeSet" /\ wpc = "dtorSet"
  /\ Len(handled) >= 1 /\ Len(sent) >= 1

----------------------------------------------------------------------------
(* The messages sent with the NUL delimiter, checked under Spec *)

\* C25: with the NUL delimiter the message passed to Socket::send for a
\* handled request is exactly the handler's return value, and exactly REJECT
\* for a rejected one: no character is appended.
C25_NulAppendsNothing ==
  Delimiter = NUL =>
    \A j \in 1..Len(sent) :
      sent[j].msg = IF sent[j].req >= 1 /\ sent[j].req <= ResponsesPublished
                      THEN Handler(published[sent[j].req])
                      ELSE RejectCode

----------------------------------------------------------------------------
(* TransparentQueue as a FIFO queue, checked under QueueSpec and EmplaceSpec *)

\* the elements an object holds, first to last
Contents(Q) ==
  IF Q.mIsSingle THEN (IF Q.mIsEmpty THEN <<>> ELSE <<Q.mValue>>) ELSE Q.mQueue

\* C26: after any pushes and pops from the empty queue, the object holds
\* the elements of the reference FIFO sequence in its order, in either
\* representation; size() and empty() are those of the sequence, front()
\* and back() its first and last element when it has any; pop() returned the
\* first element of the sequence it was called on and removed it, and on an
\* empty queue it returned null and left the queue empty; the push that
\* allocates the queue keeps the element held before in front of the new.
C26_FifoRefinement ==
  /\ \A i \in {1, 2} :
       /\ Contents(TQ[i]) = tqElems[i]
       /\ size(TQ[i]) = Len(tqElems[i])
       /\ empty(TQ[i]) <=> (tqElems[i] = <<>>)
       /\ tqElems[i] # <<>> =>
            /\ front(TQ[i]) = Head(tqElems[i])
            /\ back(TQ[i]) = tqElems[i][Len(tqElems[i])]
  /\ tqCall.op = "pop" =>
       /\ tqCall.ret = IF tqCall.before = <<>> THEN nullptr
                       ELSE Head(tqCall.before)
       /\ tqElems[tqCall.i] = IF tqCall.before = <<>> THEN <<>>
                               ELSE Tail(tqCall.before)
       /\ tqCall.before = <<>> => empty(TQ[tqCall.i]) /\ size(TQ[tqCall.i]) = 0
  /\ tqCall.op = "push" =>
       /\ tqElems[tqCall.i] = Append(tqCall.before, tqCall.V)
       /\ Len(tqCall.before) = 1 =>
            Contents(TQ[tqCall.i]) = <<tqCall.before[1], tqCall.V>>

\* pop() on an allocated queue holding three elements
C26_Witness ==
  /\ tqCall.op = "pop" /\ tqCall.i = 1 /\ tqCall.before = <<3, 1, 2>>
  /\ tqCall.ret = 3 /\ ~TQ[1].mIsSingle /\ tqElems[1] = <<1, 2>>
  /\ front(TQ[1]) = 1 /\ back(TQ[1]) = 2 /\ size(TQ[1]) = 2

\* C27: after emplace(v) on a queue in any state the elements are the
\* elements held before followed by v, and size() has grown by one.
C27_EmplaceAppendsOne ==
  tqCall.op = "emplace" =>
    /\ Contents(TQ[tqCall.i]) = Append(tqCall.before, tqCall.V)
    /\ size(TQ[tqCall.i]) = Len(tqCall.before) + 1

----------------------------------------------------------------------------
(* Requests made of empty segments, checked under SegmentSpec *)

\* the messages that answer the requests of a list, one by one
ResponsesTo(reqs) ==
  [k \in 1..Len(reqs) |-> Append(Handler(reqs[k]), Delimiter)]

\* C28: with a non-NUL delimiter the requests of a chunk are its segments,
\* an empty segment terminated by a delimiter being one request (foo$$bar
\* gives foo, empty, bar; one delimiter gives one empty request) and an
\* empty rest after the last delimiter none; the empty chunk gives no
\* request, publishes nothing and sends nothing; and when the listener has
\* served a chunk with no rejection recorded, the handler has been invoked
\* with each of its requests, the empty ones included, and each has got its
\* own response.
C28_EmptySegments ==
  Delimiter # NUL =>
    /\ chunk.reqs = Segments(chunk.raw, Delimiter)
    /\ chunk.raw = Foo \o <<"$", "$">> \o Bar => chunk.reqs = <<Foo, <<>>, Bar>>
    /\ chunk.raw = <<"$">> => chunk.reqs = << <<>> >>
    /\ chunk.raw = Foo \o <<"$">> \o Bar \o <<"$">> => chunk.reqs = <<Foo, Bar>>
    /\ chunk.raw = <<>> => chunk.reqs = <<>>
    /\ (~chunk.rejected /\ nChunks > 0) =>
         /\ Len(delivered) >= Len(chunk.reqs)
         /\ SubSeq(delivered, Len(delivered) - Len(chunk.reqs) + 1,
                   Len(delivered)) = chunk.reqs
         /\ chunk.raw = <<>> =>
              (chunk.sent = <<>> /\ Len(published) = chunk.pub)
         /\ (npc = "idle" /\ ~Reject) =>
              /\ chunk.sent = ResponsesTo(chunk.reqs)
              /\ Len(handled) = chunk.pub + Len(chunk.reqs)
              /\ SubSeq(handled, chunk.pub + 1, Len(handled)) = chunk.reqs

C28_Witness ==
  /\ Delimiter = "$" /\ npc = "idle" /\ ~Reject /\ nChunks = 2
  /\ chunk.raw = Foo \o <<"$", "$">> \o Bar
  /\ chunk.sent = <<Append(Handler(Foo), "$"), Append(Handler(<<>>), "$"),
                    Append(Handler(Bar), "$")>>
  /\ handled = << <<>>, Foo, <<>>, Bar >>

----------------------------------------------------------------------------
(* IntrusiveConnection handles and the ownership of Status blocks: HandleSpec *)

HandleInit ==
  /\ HandleIdle
  /\ HandoffIdle /\ Delimiter = NUL /\ SplitIdle /\ EngineIdle /\ ServerIdle
  /\ QueueIdle

\* the handle object exists: constructed and not destroyed
Alive(h) == handles[h].life = "alive"

\* the process goes on: no undefined operation has ended it
Running == hCall.op # "crashed"

\* connect(): auto CS = new Status; IntrusiveConnection(CS)
Connect(b, h) ==
  /\ Running
  /\ ~blocks[b].made /\ handles[h].life = "unborn"
  /\ blocks' = [blocks EXCEPT ![b].made = TRUE]
  /\ handles' = [handles EXCEPT ![h] = [life |-> "alive", mStatus |-> b]]
  /\ hCall' = [op |-> "connect", set |-> FALSE]
  /\ UNCHANGED <<hvars, fvars, evars, svars, qvars>>

\* IntrusiveConnection(IntrusiveConnection &&C): the handle h is constructed
\* from the handle c
MoveConstruct(h, c) ==
  /\ Running
  /\ handles[h].life = "unborn" /\ Alive(c)
  /\ handles' = [handles EXCEPT ![h] = handles[c], ![c].mStatus = nullptr]
  /\ hCall' = [op |-> "moveConstruct", set |-> FALSE]
  /\ UNCHANGED <<blocks, hvars, fvars, evars, svars, qvars>>

\* operator=(IntrusiveConnection &&C): h = std::move(c). With this != &C the
\* function flows off its end without a return statement, which is
\* undefined: the call comes back or the process dies.
MoveAssign(h, c) ==
  /\ Running
  /\ Alive(h) /\ Alive(c)
  /\ IF h = c
       THEN UNCHANGED handles /\ hCall' = [op |-> "moveAssign", set |-> FALSE]
       ELSE /\ handles' = [handles EXCEPT ![h].mStatus = handles[c].mStatus,
                                           ![c].mStatus = nullptr]
            /\ hCall' \in {[op |-> "moveAssign", set |-> FALSE],
                            [op |-> "crashed", set |-> FALSE]}
  /\ UNCHANGED <<blocks, hvars, fvars, evars, svars, qvars>>

\* ~IntrusiveConnection(): if (!mStatus) return; mStatus->mReject = true
Destroy(h) ==
  /\ Running
  /\ Alive(h)
  /\ handles' = [handles EXCEPT ![h].life = "dead"]
  /\ IF handles[h].mStatus = nullptr
       THEN UNCHANGED blocks /\ hCall' = [op |-> "destroy", set |-> FALSE]
       ELSE /\ blocks' = [blocks EXCEPT ![handles[h].mStatus].mReject = TRUE]
            /\ hCall' = [op |-> "destroy", set |-> TRUE]
  /\ UNCHANGED <<hvars, fvars, evars, svars, qvars>>

\* answer(F) on the handle h: false at once with a null mStatus; else the
\* request is answered, or the close is seen: mReject = true, mStatus = nullptr
Answer(h, Close) ==
  /\ Running
  /\ Alive(h)
  /\ IF handles[h].mStatus # nullptr /\ Close
       THEN /\ blocks' = [blocks EXCEPT ![handles[h].mStatus].mReject = TRUE]
            /\ handles' = [handles EXCEPT ![h].mStatus = nullptr]
            /\ hCall' = [op |-> "answer", set |-> TRUE]
       ELSE /\ UNCHANGED <<handles, blocks>>
            /\ hCall' = [op |-> "answer", set |-> FALSE]
  /\ UNCHANGED <<hvars, fvars, evars, svars, qvars>>

HandleNext ==
  \/ \E b \in Blocks, h \in Handles : Connect(b, h)
  \/ \E h \in Handles, c \in Handles : MoveConstruct(h, c)
  \/ \E h \in Handles, c \in Handles : MoveAssign(h, c)
  \/ \E h \in Handles : Destroy(h)
  \/ \E h \in Handles, Close \in BOOLEAN : Answer(h, Close)

HandleSpec == HandleInit /\ [][HandleNext]_vars

\* the handles that refer to the block b
Owners(b) == {h \in Handles : Alive(h) /\ handles[h].mStatus = b}

\* C29: every Status block that is allocated and not rejected is referred
\* to by exactly one handle, whatever moves, answer() calls and destructions
\* have happened, and a move sets no reject flag.
C29_ExactlyOneOwner ==
  /\ \A b \in Blocks :
       (blocks[b].made /\ ~blocks[b].mReject) => Cardinality(Owners(b)) = 1
  /\ hCall.op \in {"moveConstruct", "moveAssign"} => ~hCall.set

----------------------------------------------------------------------------
(* The release of the status block, checked under Spec *)

\* C30: `delete CS` runs at most once and only with the reject flag set: in
\* the receive listener when it has recorded the rejection, else in the
\* closed listener after its wait for the reject flag; when the closed
\* listener has returned the block has been released exactly once, and so
\* has the flag *Reject.
C30_ReleasedOnce ==
  /\ csDeletes <= 1 /\ rejectDeletes <= 1
  /\ csDeletes = 1 => mReject
  /\ Reject => mReject
  /\ (Reject /\ npc \notin {"taken", "send", "delete"}) => csDeletes = 1
  /\ (Reject /\ npc \in {"taken", "send", "delete"}) => csDeletes = 0
  /\ (~Reject /\ csDeletes = 1) => npc \in {"deleteReject", "closed", "crashed"}
  /\ npc \in {"close", "closeSet", "waitReject", "acked", "deleteCS"} =>
       (~Reject /\ csDeletes = 0)
  /\ npc = "deleteReject" => (csDeletes = 1 /\ rejectDeletes = 0)
  /\ npc = "closed" => (csDeletes = 1 /\ rejectDeletes = 1)
  /\ rejectDeletes = 1 => npc \in {"closed", "crashed"}

\* the receive listener released the block, the closed listener only *Reject
C30_Witness ==
  /\ npc = "closed" /\ Reject /\ csDeletes = 1 /\ rejectDeletes = 1
  /\ Len(sent) >= 1 /\ ~mClose

====
